---------------------------- MODULE Spec2Model ----------------------------
(***************************************************************************)
(* A model of ppot-verifier's downloader (src/bin/downloader.rs):          *)
(*   - the Content-Range codec, `impl FromStr for ContentRange`;           *)
(*   - the resumable fetcher, `download_file`, with the file it appends to *)
(*     and the server it talks to;                                         *)
(*   - the download orchestrator, `main` of downloader.rs, on its own and  *)
(*     with its fetch tasks followed step by step on a shared directory;   *)
(* of the verification chain, `main` of src/bin/verify_ppot.rs, of the     *)
(* hash passes src/bin/hash_check.rs, src/bin/hasher.rs and                *)
(* src/bin/hash_test.rs, and of the functions of src/lib.rs.               *)
(*                                                                         *)
(* Header text is a sequence of one-character strings.  A u64 is four      *)
(* 16-bit limbs, least significant first, so that the 64-bit overflow of   *)
(* `str::parse::<u64>` is computed exactly with small integers.            *)
(***************************************************************************)
EXTENDS Integers, Sequences, FiniteSets, TLC

VARIABLES
    \* ---- the fetcher: one (url, path) pair
    disk,       \* the artifact's bytes on disk
    pc,         \* where download_file stands: idle, opened, streaming, done
    result,     \* what the last download_file returned ("none" while running)
    start,      \* amount_downloaded as read by open_file (the resume offset)
    total,      \* total_size of a Full content-range
    amount,     \* amount_downloaded, the progress position
    outer,      \* bytes held by the BufWriter made in download_file
    inner,      \* bytes held by the BufWriter made in open_file
    body,       \* body bytes of the response not yet handed out by chunk()
    orig,       \* history: the artifact's bytes when open_file ran
    received,   \* history: body bytes chunk() has returned in this invocation
    sent,       \* history: the Range header values sent in this invocation
    reply,      \* history: the Content-Range header of the response (or NoHeader)
    body0,      \* history: the whole body of the response
    server,     \* environment: "conforming" or "arbitrary"
    disk0,      \* history: the artifact's bytes before the first invocation
    fetches,    \* number of invocations started
    \* ---- the codec run on its own
    hdr,        \* the header text handed to from_str
    args,       \* the descriptor hdr was written from, NoArgs for free text
    parsed,     \* its result, NotParsed before the call
    \* ---- the orchestrator: main of downloader.rs
    catalog,    \* the (url, path) pairs the for loop iterates over
    network,    \* environment: "healthy", "faulty" or "gone"
    opc,        \* where main stands: idle, probing, returned
    nextEntry,  \* index into catalog of the entry the for loop is at
    probe,      \* per entry, what file_exists met: none, 200, status, transport
    task,       \* per entry, its fetch task: none, spawned, inflight, ok, err, cancelled
    handles,    \* the JoinHandles pushed so far, as entry indices
    oresult,    \* what main returned
    \* ---- the verification chain: main of verify_ppot.rs
    fs,         \* per artifact path: absent, garbled or good
    cpc,        \* where main stands: idle, start, loop, done, panicked
    round,      \* the loop variable i
    prev,       \* the accumulator threaded from round to round
    report,     \* the lines printed, one per round that ended
    calls,      \* history: the arguments and verdict of each verify_transform call
    reads,      \* history: the paths handed to try_into_mmap, in order
    \* ---- the hash passes: main of hash_check.rs and of hasher.rs
    dir,        \* the working directory: per path, Absent or the file's bytes
    hpc,        \* where main stands: idle, loop1, loop2, done, panicked
    pair,       \* the position of the running loop in its list
    hout,       \* the lines printed
    compared,   \* history: the comparisons made, in order
    runs,       \* how many times the hashing pass has been started
    \* ---- the functions of lib.rs called on their own
    call,       \* the function called and its arguments
    ret,        \* what it returned, NoRet before the call
    \* ---- the fetch tasks of the orchestrator, step by step
    files,      \* the download directory: per local path, Absent or the file's bytes
    ft,         \* per entry, the locals of its download_file
    sink,       \* the positions reported to the shared MultiProgress, in order
    trace,      \* history: per entry, what its task met at each of its steps
    files0      \* history: the download directory when main was entered

fvars == <<disk, pc, result, start, total, amount, outer, inner, body, orig,
           received, sent, reply, body0, server, disk0, fetches>>
pvars == <<hdr, args, parsed>>
ovars == <<catalog, network, opc, nextEntry, probe, task, handles, oresult>>
cvars == <<fs, cpc, round, prev, report, calls, reads>>
hvars == <<dir, hpc, pair, hout, compared, runs>>
lvars == <<call, ret>>
tvars == <<files, ft, sink, trace, files0>>
xvars == <<hvars, lvars, tvars>>
vars == <<fvars, pvars, ovars, cvars, xvars>>

---------------------------------------------------------------------------
(* Bounds of the model *)

\* Size in bytes of the remote resource.
RemoteSize == 3
\* Capacity in bytes of each BufWriter (tokio's default is 8 KiB).
BufCap == 2
\* Invocations of download_file on the one path.
MaxFetches == 3
\* Length of the free text after the tag in the codec's inputs.
MaxRest == 5

---------------------------------------------------------------------------
(* u64 arithmetic on 16-bit limbs *)

LimbBase == 65536

\* The u64 of a small natural number.
U64(n) == <<n % LimbBase, n \div LimbBase, 0, 0>>

U64Zero == <<0, 0, 0, 0>>
U64Max == <<65535, 65535, 65535, 65535>>

\* checked_mul(10) then checked_add(d): the new limbs and whether it overflowed.
MulAdd10(v, d) ==
    LET t1 == v[1] * 10 + d
        t2 == v[2] * 10 + (t1 \div LimbBase)
        t3 == v[3] * 10 + (t2 \div LimbBase)
        t4 == v[4] * 10 + (t3 \div LimbBase)
    IN  [val |-> <<t1 % LimbBase, t2 % LimbBase, t3 % LimbBase, t4 % LimbBase>>,
         overflow |-> (t4 \div LimbBase) > 0]

\* v / 10 and v % 10, by long division from the top limb.
DivMod10(v) ==
    LET q4 == v[4] \div 10
        x3 == (v[4] % 10) * LimbBase + v[3]
        q3 == x3 \div 10
        x2 == (x3 % 10) * LimbBase + v[2]
        q2 == x2 \div 10
        x1 == (x2 % 10) * LimbBase + v[1]
        q1 == x1 \div 10
    IN  [quot |-> <<q1, q2, q3, q4>>, rem |-> x1 % 10]

DigitChars == <<"0", "1", "2", "3", "4", "5", "6", "7", "8", "9">>

IsDigit(c) == \E i \in 1..10 : DigitChars[i] = c

DigitVal(c) == (CHOOSE i \in 1..10 : DigitChars[i] = c) - 1

RECURSIVE FmtDigits(_)
FmtDigits(v) ==
    IF v = U64Zero THEN <<>>
    ELSE LET dm == DivMod10(v)
         IN  FmtDigits(dm.quot) \o <<DigitChars[dm.rem + 1]>>

\* `format!("{}", v)` for a u64: decimal, no sign, no leading zeros.
FmtU64(v) == IF v = U64Zero THEN <<"0">> ELSE FmtDigits(v)

---------------------------------------------------------------------------
(* str::parse::<u64> *)

IntOk(v) == [ok |-> TRUE, val |-> v, kind |-> "none"]
IntErr(k) == [ok |-> FALSE, val |-> U64Zero, kind |-> k]

\* The digit loop: left to right, stopping at the first bad digit or overflow.
RECURSIVE ParseDigits(_, _, _)
ParseDigits(s, i, acc) ==
    IF i > Len(s) THEN IntOk(acc)
    ELSE IF ~IsDigit(s[i]) THEN IntErr("InvalidDigit")
    ELSE LET m == MulAdd10(acc, DigitVal(s[i]))
         IN  IF m.overflow THEN IntErr("PosOverflow")
             ELSE ParseDigits(s, i + 1, m.val)

\* u64::from_str: empty text, a lone sign, an optional '+', then digits.
ParseU64(s) ==
    IF Len(s) = 0 THEN IntErr("Empty")
    ELSE IF Len(s) = 1 /\ s[1] \in {"+", "-"} THEN IntErr("InvalidDigit")
    ELSE IF s[1] = "+" THEN ParseDigits(s, 2, U64Zero)
    ELSE ParseDigits(s, 1, U64Zero)

---------------------------------------------------------------------------
(* impl FromStr for ContentRange *)

\* Index of the first c in s, 0 when there is none.
RECURSIVE FindFrom(_, _, _)
FindFrom(s, c, i) ==
    IF i > Len(s) THEN 0
    ELSE IF s[i] = c THEN i
    ELSE FindFrom(s, c, i + 1)

Find(s, c) == FindFrom(s, c, 1)

\* str::split_once: the text before and after the first delimiter.
SplitOnce(s, c) ==
    LET i == Find(s, c)
    IN  [found |-> i > 0,
         left  |-> IF i > 0 THEN SubSeq(s, 1, i - 1) ELSE <<>>,
         right |-> IF i > 0 THEN SubSeq(s, i + 1, Len(s)) ELSE <<>>]

BytesTag == <<"b", "y", "t", "e", "s">>

Full(a, b, s) ==
    [tag |-> "Full", start |-> a, end |-> b, size |-> s, err |-> "none", cause |-> "none"]
Size(s) ==
    [tag |-> "Size", start |-> U64Zero, end |-> U64Zero, size |-> s, err |-> "none",
     cause |-> "none"]
ParseError(e, k) ==
    [tag |-> "Err", start |-> U64Zero, end |-> U64Zero, size |-> U64Zero, err |-> e,
     cause |-> k]

\* FullArm with the end and size fields taken in the wrong order.
FullArmSwapped(startText, endAndSize) ==
    LET es == SplitOnce(endAndSize, "/")
        a == ParseU64(startText)
        b == ParseU64(es.left)
        s == ParseU64(es.right)
    IN  IF ~es.found THEN ParseError("MissingSlash", "none")
        ELSE IF ~a.ok THEN ParseError("InvalidStart", a.kind)
        ELSE IF ~b.ok THEN ParseError("InvalidEnd", b.kind)
        ELSE IF ~s.ok THEN ParseError("InvalidSize", s.kind)
        ELSE Full(a.val, s.val, b.val)

\* The arm of from_str for a range text that holds a '-'.
FullArm(startText, endAndSize) ==
    LET es == SplitOnce(endAndSize, "/")
        a == ParseU64(startText)
        b == ParseU64(es.left)
        s == ParseU64(es.right)
    IN  IF ~es.found THEN ParseError("MissingSlash", "none")
        ELSE IF ~a.ok THEN ParseError("InvalidStart", a.kind)
        ELSE IF ~b.ok THEN ParseError("InvalidEnd", b.kind)
        ELSE IF ~s.ok THEN ParseError("InvalidSize", s.kind)
        ELSE Full(a.val, b.val, s.val)

\* The arm of from_str for a range text with no '-'.
SizeArm(range) ==
    LET ss == SplitOnce(range, "/")
        s == ParseU64(ss.right)
    IN  IF ~ss.found THEN ParseError("MissingSlash", "none")
        ELSE IF ss.left # <<"*">> THEN ParseError("MissingStar", "none")
        ELSE IF ~s.ok THEN ParseError("InvalidSize", s.kind)
        ELSE Size(s.val)

\* FromStr without the comparison of the tag with "bytes".
FromStrAnyTag(range_string) ==
    LET tr == SplitOnce(range_string, " ")
        dash == SplitOnce(tr.right, "-")
    IN  IF ~tr.found THEN ParseError("MissingSpace", "none")
        ELSE IF dash.found THEN FullArm(dash.left, dash.right)
        ELSE SizeArm(tr.right)

\* ContentRange::from_str.
FromStr(range_string) ==
    LET tr == SplitOnce(range_string, " ")
        dash == SplitOnce(tr.right, "-")
    IN  IF ~tr.found THEN ParseError("MissingSpace", "none")
        ELSE IF tr.left # BytesTag THEN ParseError("MissingBytesTag", "none")
        ELSE IF dash.found THEN FullArm(dash.left, dash.right)
        ELSE SizeArm(tr.right)

---------------------------------------------------------------------------
(* Header text as a server writes it, and the codec's idle state *)

NotParsed ==
    [tag |-> "NotParsed", start |-> U64Zero, end |-> U64Zero, size |-> U64Zero,
     err |-> "none", cause |-> "none"]
NoArgs == NotParsed

\* "bytes <start>-<end>/<size>" as a server writes it.
FullText(a, b, s) ==
    BytesTag \o <<" ">> \o FmtU64(a) \o <<"-">> \o FmtU64(b) \o <<"/">> \o FmtU64(s)

\* "bytes */<size>" as a server writes it.
SizeText(s) == BytesTag \o <<" ", "*", "/">> \o FmtU64(s)

---------------------------------------------------------------------------
(* The response's Content-Range header and ContentRange::from_response *)

\* No response yet; a response without the header, with one that is not
\* visible ASCII, with text.
NoReply == [kind |-> "none", text |-> <<>>]
NoHeader == [kind |-> "absent", text |-> <<>>]
OpaqueHeader == [kind |-> "opaque", text |-> <<>>]
TextHeader(s) == [kind |-> "text", text |-> s]

NoneRange ==
    [tag |-> "None", start |-> U64Zero, end |-> U64Zero, size |-> U64Zero,
     err |-> "none", cause |-> "none"]

\* ContentRange::from_response: None for a missing, non-ASCII or unparsable header.
FromResponse(h) ==
    IF h.kind # "text" THEN NoneRange
    ELSE LET r == FromStr(h.text)
         IN  IF r.tag = "Err" THEN NoneRange ELSE r

---------------------------------------------------------------------------
(* The server behind the url *)

\* The remote resource: bytes 1, 2, ..., RemoteSize.
Remote == [i \in 1..RemoteSize |-> i]

\* The value of a u64 that fits two limbs.
ToNat(v) == v[1] + v[2] * LimbBase

U64Less(x, y) ==
    \E i \in 1..4 : x[i] < y[i] /\ \A j \in (i + 1)..4 : x[j] = y[j]

\* RangeValue with the resume offset left out of the request.
RangeValueFromZero(n) == BytesTag \o <<"=">> \o FmtU64(U64Zero) \o <<"-">>

\* `format!("bytes={}-", start)`, the Range header download_file's request carries.
RangeValue(n) == BytesTag \o <<"=">> \o FmtU64(U64(n)) \o <<"-">>

\* The offset a server reads from a Range value "bytes=<n>-".
RequestedOffset(range) ==
    ToNat(ParseU64(SubSeq(range, Len(BytesTag) + 2, Len(range) - 1)).val)

\* What a server following the range protocol answers to an offset: the rest of
\* the resource, or the size alone when nothing is left.
ConformingResponse(o) ==
    IF o < RemoteSize
    THEN [hdr |-> TextHeader(FullText(U64(o), U64(RemoteSize - 1), U64(RemoteSize))),
          body |-> SubSeq(Remote, o + 1, RemoteSize)]
    ELSE [hdr |-> TextHeader(SizeText(U64(RemoteSize))), body |-> <<>>]

\* Header texts from_str rejects, one for each kind of parse error.
BadTexts ==
    {<<"j", "u", "n", "k">>,
     <<"B", "y", "t", "e", "s", " ", "0", "-", "1", "/", "2">>,
     BytesTag \o <<" ", "0", "-", "1">>,
     BytesTag \o <<" ", "1", "/", "3">>,
     BytesTag \o <<" ", "x", "-", "1", "/", "3">>,
     BytesTag \o <<" ", "0", "-", "x", "/", "3">>,
     BytesTag \o <<" ", "*", "/", "x">>,
     BytesTag \o <<" ", "*", "/", "-", "3">>}

\* Headers a server that does not keep to the protocol may send for offset o.
ArbitraryHeaders(o) ==
    {NoHeader, OpaqueHeader}
    \cup {TextHeader(x) : x \in BadTexts}
    \cup {TextHeader(SizeText(U64(n))) : n \in {o, o + 1, RemoteSize}}
    \cup {TextHeader(FullText(U64(0), U64(RemoteSize - 1), U64(RemoteSize))),
          TextHeader(FullText(U64(o), U64(RemoteSize), U64(RemoteSize + 1))),
          TextHeader(FullText(U64(o), U64(0), U64(1)))}

\* Bodies such a server may send.
ArbitraryBodies(o) ==
    {<<>>, <<0>>, Remote, ConformingResponse(o).body \o <<0>>}

Responses(srv, range) ==
    LET o == RequestedOffset(range)
    IN  IF srv = "conforming" THEN {ConformingResponse(o)}
        ELSE {ConformingResponse(o)}
             \cup {[hdr |-> h, body |-> b] : h \in ArbitraryHeaders(o),
                                             b \in ArbitraryBodies(o)}

---------------------------------------------------------------------------
(* The two BufWriters over the file opened for append *)

Writer(o, i, d) == [outer |-> o, inner |-> i, disk |-> d]

\* InnerWrite sending a large write to the file ahead of the bytes it holds.
InnerWriteOvertakes(w, data) ==
    IF Len(data) >= BufCap
    THEN [w EXCEPT !.disk = @ \o data]
    ELSE IF Len(w.inner) + Len(data) > BufCap
         THEN [w EXCEPT !.disk = @ \o w.inner, !.inner = data]
         ELSE [w EXCEPT !.inner = @ \o data]

\* poll_write of the BufWriter made in open_file, whose sink is the file: the
\* held bytes go out first when the new ones do not fit, and a write as large
\* as the buffer goes straight to the file.
InnerWrite(w, data) ==
    LET w1 == IF Len(w.inner) + Len(data) > BufCap
              THEN [w EXCEPT !.disk = @ \o w.inner, !.inner = <<>>]
              ELSE w
    IN  IF Len(data) >= BufCap
        THEN [w1 EXCEPT !.disk = @ \o data]
        ELSE [w1 EXCEPT !.inner = @ \o data]

\* write_all on the BufWriter made in download_file, whose sink is the other one.
OuterWrite(w, data) ==
    LET w1 == IF Len(w.outer) + Len(data) > BufCap
              THEN InnerWrite([w EXCEPT !.outer = <<>>], w.outer)
              ELSE w
    IN  IF Len(data) >= BufCap
        THEN InnerWrite(w1, data)
        ELSE [w1 EXCEPT !.outer = @ \o data]

\* Flush emptying only the outer buffer, into the inner writer.
FlushOuterOnly(w) == InnerWrite([w EXCEPT !.outer = <<>>], w.outer)

\* flush: the outer buffer into the inner writer, the inner buffer into the file.
Flush(w) ==
    LET w1 == InnerWrite([w EXCEPT !.outer = <<>>], w.outer)
    IN  [w1 EXCEPT !.disk = @ \o w1.inner, !.inner = <<>>]

---------------------------------------------------------------------------
(* download_file *)

IsPrefix(s, t) == Len(s) <= Len(t) /\ s = SubSeq(t, 1, Len(s))

\* main of downloader.rs has not returned anything yet.
NoResult == [tag |-> "none", from |-> "none", entry |-> 0]

\* The orchestrator is not running.
OrchIdle ==
    /\ catalog = <<>> /\ network = "healthy" /\ opc = "idle" /\ nextEntry = 0
    /\ probe = <<>> /\ task = <<>> /\ handles = <<>> /\ oresult = NoResult

\* No accumulator has been read.
NoAcc == [of |-> <<>>]

\* The verification chain is not running.
ChainIdle ==
    /\ fs = <<>> /\ cpc = "idle" /\ round = 0 /\ prev = NoAcc
    /\ report = <<>> /\ calls = <<>> /\ reads = <<>>

\* A path that names no file, and a file holding the given bytes.
Absent == [exists |-> FALSE, bytes |-> <<>>]

File(bytes) == [exists |-> TRUE, bytes |-> bytes]

\* No hash pass is running.
HashIdle ==
    /\ dir = <<>> /\ hpc = "idle" /\ pair = 0 /\ hout = <<>> /\ compared = <<>>
    /\ runs = 0

\* No function of lib.rs has returned.
NoRet == [tag |-> "none"]

\* No function of lib.rs is called.
LibIdle == call = [fn |-> "none"] /\ ret = NoRet

\* No fetch task is followed step by step.
TasksIdle ==
    /\ files = <<>> /\ ft = <<>> /\ sink = <<>> /\ trace = <<>> /\ files0 = <<>>

\* Artifacts a first invocation may find: nothing, a part of the resource, all
\* of it, or bytes of some other resource (shorter, as long, longer).
InitialDisks ==
    {SubSeq(Remote, 1, k) : k \in 0..RemoteSize}
    \cup {[i \in 1..n |-> 0] : n \in {1, RemoteSize, RemoteSize + 1}}

Init ==
    /\ disk \in InitialDisks
    /\ disk0 = disk
    /\ server \in {"conforming", "arbitrary"}
    /\ pc = "idle" /\ result = "none" /\ start = 0 /\ total = U64Zero /\ amount = 0
    /\ outer = <<>> /\ inner = <<>> /\ body = <<>> /\ orig = disk
    /\ received = <<>> /\ sent = <<>> /\ reply = NoReply /\ body0 = <<>>
    /\ fetches = 0
    /\ hdr = <<>> /\ args = NoArgs /\ parsed = NotParsed
    /\ OrchIdle /\ ChainIdle /\ HashIdle /\ LibIdle /\ TasksIdle

\* download_file returns: the writers are dropped with whatever they hold.
Return(r) ==
    /\ pc' = "done"
    /\ result' = r
    /\ outer' = <<>>
    /\ inner' = <<>>
    /\ body' = <<>>

\* A call of download_file begins: what the last call left is forgotten.
Begin ==
    /\ pc \in {"idle", "done"}
    /\ fetches < MaxFetches
    /\ fetches' = fetches + 1
    /\ orig' = disk
    /\ received' = <<>> /\ sent' = <<>> /\ reply' = NoReply /\ body0' = <<>>
    /\ total' = U64Zero

\* open_file: the file is opened for append and its length read.
OpenFile ==
    /\ Begin
    /\ start' = Len(disk)
    /\ amount' = Len(disk)
    /\ pc' = "opened" /\ result' = "none"
    /\ outer' = <<>> /\ inner' = <<>> /\ body' = <<>>
    /\ UNCHANGED <<disk, server, disk0, pvars, ovars, cvars, xvars>>

\* open_file fails (the path cannot be opened or its metadata read).
OpenFail ==
    /\ Begin
    /\ Return("open_error")
    /\ UNCHANGED <<disk, start, amount, server, disk0, pvars, ovars, cvars, xvars>>

\* send_download_request: `send().await?` fails.
SendFail ==
    /\ pc = "opened"
    /\ sent' = Append(sent, RangeValue(start))
    /\ Return("network_error")
    /\ UNCHANGED <<disk, start, total, amount, orig, received, reply, body0, server,
                   disk0, fetches, pvars, ovars, cvars, xvars>>

\* RequestOutcome with the size comparison inverted.
OutcomeInverted(cr, st) ==
    IF cr.tag = "Full" THEN "stream"
    ELSE IF cr.tag = "Size"
         THEN IF cr.size # U64(st) THEN "ok" ELSE "size_mismatch"
         ELSE "bad_range"

\* RequestOutcome taking every size-only answer as "nothing left to fetch".
OutcomeNoSizeCheck(cr, st) ==
    IF cr.tag = "Full" THEN "stream"
    ELSE IF cr.tag = "Size" THEN "ok" ELSE "bad_range"

\* RequestOutcome taking a missing content range as "nothing left to fetch".
OutcomeNoneIsDone(cr, st) ==
    IF cr.tag = "Full" THEN "stream"
    ELSE IF cr.tag = "Size"
         THEN IF cr.size = U64(st) THEN "ok" ELSE "size_mismatch"
         ELSE "ok"

\* RequestOutcome holding a Full content range to the offset that was asked for.
OutcomeChecksStart(cr, st) ==
    IF cr.tag = "Full" THEN IF cr.start = U64(st) THEN "stream" ELSE "bad_range"
    ELSE IF cr.tag = "Size"
         THEN IF cr.size = U64(st) THEN "ok" ELSE "size_mismatch"
         ELSE "bad_range"

\* The match in send_download_request on the parsed content range, and what
\* download_file makes of it: "stream" for Ok(Some(..)), "ok" for Ok(None)
\* (download_file returns Ok(()) at once), else the error returned.
RequestOutcome(cr, st) ==
    IF cr.tag = "Full" THEN "stream"
    ELSE IF cr.tag = "Size"
         THEN IF cr.size = U64(st) THEN "ok" ELSE "size_mismatch"
         ELSE "bad_range"

\* send_download_request gets a response.
SendRequest ==
    /\ pc = "opened"
    /\ sent' = Append(sent, RangeValue(start))
    /\ \E rsp \in Responses(server, RangeValue(start)) :
         LET cr == FromResponse(rsp.hdr)
             out == RequestOutcome(cr, start)
         IN  /\ reply' = rsp.hdr
             /\ body0' = rsp.body
             /\ IF out = "stream"
                THEN /\ total' = cr.size
                     /\ body' = rsp.body
                     /\ pc' = "streaming"
                     /\ UNCHANGED <<result, outer, inner>>
                ELSE /\ Return(out)
                     /\ UNCHANGED total
    /\ UNCHANGED <<disk, start, amount, orig, received, server, disk0, fetches, pvars, ovars, cvars, xvars>>

\* The progress position advanced without the cap at total_size.
AdvanceUncapped(a, n, t) == a + n

\* min(amount_downloaded + chunk.len(), total_size)
Advance(a, n, t) == IF U64Less(t, U64(a + n)) THEN ToNat(t) ELSE a + n

\* One turn of the loop: chunk() yields n bytes and write_all takes them.
ChunkWrite ==
    /\ pc = "streaming"
    /\ \E n \in 1..Len(body) :
         LET chunk == SubSeq(body, 1, n)
             w == OuterWrite(Writer(outer, inner, disk), chunk)
         IN  /\ received' = received \o chunk
             /\ body' = SubSeq(body, n + 1, Len(body))
             /\ outer' = w.outer /\ inner' = w.inner /\ disk' = w.disk
             /\ amount' = Advance(amount, n, total)
    /\ UNCHANGED <<pc, result, start, total, orig, sent, reply, body0, server, disk0,
                   fetches, pvars, ovars, cvars, xvars>>

\* chunk() yields n bytes and write_all fails: of the bytes it was sending to
\* the file, only some leading part got there.
ChunkWriteFail ==
    /\ pc = "streaming"
    /\ \E n \in 1..Len(body) :
         LET chunk == SubSeq(body, 1, n)
             w == OuterWrite(Writer(outer, inner, disk), chunk)
         IN  /\ Len(w.disk) > Len(disk)
             /\ received' = received \o chunk
             /\ \E k \in Len(disk)..(Len(w.disk) - 1) : disk' = SubSeq(w.disk, 1, k)
    /\ Return("io_error")
    /\ UNCHANGED <<start, total, amount, orig, sent, reply, body0, server, disk0,
                   fetches, pvars, ovars, cvars, xvars>>

\* ChunkFail asking for the rest again instead of returning the error.
ChunkFailRetries ==
    /\ pc = "streaming"
    /\ pc' = "opened"
    /\ body' = <<>>
    /\ UNCHANGED <<disk, result, start, total, amount, outer, inner, orig, received,
                   sent, reply, body0, server, disk0, fetches, pvars, ovars, cvars, xvars>>

\* chunk() fails: `response.chunk().await?`.
ChunkFail ==
    /\ pc = "streaming"
    /\ Return("network_error")
    /\ UNCHANGED <<disk, start, total, amount, orig, received, sent, reply, body0,
                   server, disk0, fetches, pvars, ovars, cvars, xvars>>

\* chunk() yields None: the loop ends, flush succeeds, Ok(()).
Finish ==
    /\ pc = "streaming"
    /\ body = <<>>
    /\ disk' = Flush(Writer(outer, inner, disk)).disk
    /\ Return("ok")
    /\ UNCHANGED <<start, total, amount, orig, received, sent, reply, body0, server,
                   disk0, fetches, pvars, ovars, cvars, xvars>>

\* chunk() yields None and flush fails part of the way.
FlushFail ==
    /\ pc = "streaming"
    /\ body = <<>>
    /\ LET w == Flush(Writer(outer, inner, disk))
       IN  \E k \in Len(disk)..Len(w.disk) :
             /\ k < Len(w.disk) \/ k = Len(disk)
             /\ disk' = SubSeq(w.disk, 1, k)
    /\ Return("io_error")
    /\ UNCHANGED <<start, total, amount, orig, received, sent, reply, body0, server,
                   disk0, fetches, pvars, ovars, cvars, xvars>>

\* The process is killed while download_file awaits.
Kill ==
    /\ pc \in {"opened", "streaming"}
    /\ Return("killed")
    /\ UNCHANGED <<disk, start, total, amount, orig, received, sent, reply, body0,
                   server, disk0, fetches, pvars, ovars, cvars, xvars>>

Next ==
    \/ OpenFile
    \/ OpenFail
    \/ SendFail
    \/ SendRequest
    \/ ChunkWrite
    \/ ChunkWriteFail
    \/ ChunkFail
    \/ Finish
    \/ FlushFail
    \/ Kill

Spec == Init /\ [][Next]_vars

---------------------------------------------------------------------------
(* Properties of download_file *)

\* The decimal text of a number below 100, written out digit by digit.
SmallDecimal(n) ==
    IF n < 10 THEN <<DigitChars[n + 1]>>
    ELSE <<DigitChars[(n \div 10) + 1], DigitChars[(n % 10) + 1]>>

\* The Range value "bytes=<n>-" and the header "bytes */<n>", written out.
RangeLiteral(n) == <<"b", "y", "t", "e", "s", "=">> \o SmallDecimal(n) \o <<"-">>
SizeLiteral(n) == TextHeader(<<"b", "y", "t", "e", "s", " ", "*", "/">> \o SmallDecimal(n))

\* Ways an invocation ends because it was cut short, not because of the answer.
Interrupted == {"open_error", "network_error", "io_error", "killed"}

\* The response announced Full with a size above the length L read at open time.
FullAboveL ==
    /\ FromResponse(reply).tag = "Full"
    /\ U64Less(U64(Len(orig)), FromResponse(reply).size)

\* C1 as claimed: every request sent is "bytes=L-" with L the length read at
\* open time, and a download_file that got a Full content-range with L < size
\* and returned Ok leaves the artifact exactly `size` bytes long.
C1_AsClaimed ==
    /\ sent # <<>> => sent = <<RangeLiteral(Len(orig))>>
    /\ pc = "done" /\ result = "ok" /\ FullAboveL
         => U64(Len(disk)) = FromResponse(reply).size

\* C1 amended: every request sent is "bytes=L-" with L the length read at open
\* time, and a download_file that got a Full content-range with L < size and a
\* body of exactly size - L bytes, and returned Ok, leaves the artifact exactly
\* `size` bytes long (it never compares the body's length with `size`).
C1_ResumeCorrect ==
    /\ sent # <<>> => sent = <<RangeLiteral(Len(orig))>>
    /\ pc = "done" /\ result = "ok" /\ FullAboveL
          /\ U64(Len(orig) + Len(body0)) = FromResponse(reply).size
         => U64(Len(disk)) = FromResponse(reply).size

\* A resumed download completed: the artifact held part of the resource, the
\* request started there, and the artifact now has the announced size.
C1_Witness ==
    /\ pc = "done" /\ result = "ok" /\ FullAboveL
    /\ Len(orig) > 0 /\ Len(received) > 0
    /\ sent = <<RangeLiteral(Len(orig))>>
    /\ U64(Len(disk)) = FromResponse(reply).size

\* C2: when the artifact's length L is the size and the answer is "bytes */L",
\* download_file returns Ok having written nothing; and with an artifact as long
\* as the resource and a server that keeps to the protocol, no number of
\* invocations changes the artifact.
C2_ResumeIdempotent ==
    /\ pc = "done" /\ reply = SizeLiteral(Len(orig))
         => result = "ok" /\ disk = orig /\ received = <<>> /\ Len(sent) = 1
    /\ server = "conforming" /\ Len(disk0) = RemoteSize
         => /\ disk = disk0
            /\ received = <<>>
            /\ pc = "done" /\ result \notin Interrupted => result = "ok"

\* A second invocation on a complete artifact returned Ok and left it as it was.
C2_Witness ==
    /\ fetches >= 2 /\ pc = "done" /\ result = "ok"
    /\ disk0 = Remote /\ orig = Remote /\ disk = Remote
    /\ reply = SizeLiteral(RemoteSize)

\* C3: at every point of an invocation, also after an error cut it short, the
\* artifact is its bytes at open time followed by a leading part of the body
\* bytes received so far; while streaming, what is missing is held by the
\* writers in order.
C3_AppendOnly ==
    /\ pc # "idle" => \E k \in 0..Len(received) : disk = orig \o SubSeq(received, 1, k)
    /\ pc = "streaming" => disk \o inner \o outer = orig \o received
    /\ pc = "streaming" => received \o body = body0

\* A network error cut a resumed download short with received bytes still held
\* by a writer: the artifact grew, by less than was received.
C3_Witness ==
    /\ pc = "done" /\ result = "network_error"
    /\ Len(orig) > 0
    /\ Len(disk) > Len(orig)
    /\ Len(disk) < Len(orig) + Len(received)

\* C4: with a server that keeps to the protocol and an artifact that began as
\* a leading part of the resource, the artifact stays a leading part of the
\* resource however the invocations are cut short; an invocation that is not cut
\* short returns Ok with the artifact equal to the resource; and an invocation
\* that found the artifact complete leaves it so and receives no body.
C4_RestartConverges ==
    server = "conforming" /\ IsPrefix(disk0, Remote)
      => /\ IsPrefix(disk, Remote)
         /\ pc = "done" /\ result \notin Interrupted => result = "ok" /\ disk = Remote
         /\ pc # "idle" /\ orig = Remote => disk = Remote /\ received = <<>>

\* Starting from nothing, an invocation was cut short part of the way and the
\* next one completed the artifact.
C4_Witness ==
    /\ server = "conforming" /\ disk0 = <<>>
    /\ fetches = 2 /\ Len(orig) > 0 /\ Len(orig) < RemoteSize
    /\ pc = "done" /\ result = "ok" /\ disk = Remote

\* C5: a size-only answer "bytes */n" with n other than the artifact's length L
\* makes download_file fail with the size mismatch, with one request sent and
\* the artifact as it was.
C5_SizeMismatchFatal ==
    \A n \in 0..99 :
        pc = "done" /\ reply = SizeLiteral(n) /\ n # Len(orig)
          => /\ result = "size_mismatch"
             /\ Len(sent) = 1
             /\ disk = orig
             /\ received = <<>>

\* The server announced a size below the artifact's length.
C5_Witness ==
    /\ pc = "done" /\ result = "size_mismatch"
    /\ reply = SizeLiteral(RemoteSize)
    /\ Len(orig) > RemoteSize /\ disk = orig

\* C6: a response with no Content-Range header, with one that is not text, or
\* with one of the texts from_str rejects makes download_file fail with the one
\* content-range error, the artifact as it was.
C6_BadRangeFatal ==
    pc = "done" /\ (reply.kind \in {"absent", "opaque"}
                    \/ (reply.kind = "text" /\ reply.text \in BadTexts))
      => /\ result = "bad_range"
         /\ Len(sent) = 1
         /\ disk = orig
         /\ received = <<>>

\* The header's end field was not a number.
C6_Witness ==
    /\ pc = "done" /\ result = "bad_range"
    /\ reply = TextHeader(<<"b", "y", "t", "e", "s", " ", "0", "-", "x", "/", "3">>)
    /\ Len(orig) > 0 /\ disk = orig

\* C7: an invocation never sends a second request, and has sent exactly one
\* when it streams or has returned (a failed open_file and a kill before the
\* request aside, which send none); a network error ends the invocation in the
\* step it occurs in, with nothing written; and after the return nothing is
\* sent or written until the next invocation.
C7_NoRetry ==
    /\ [](/\ Len(sent) <= 1
          /\ pc = "streaming" \/ (pc = "done" /\ result \notin {"open_error", "killed"})
               => Len(sent) = 1)
    /\ [][(result' = "network_error" /\ result # "network_error")
            => (pc' = "done" /\ disk' = disk)]_vars
    /\ [][(pc = "done" /\ fetches' = fetches) => (disk' = disk /\ sent' = sent)]_vars

\* A network error while reading a chunk, after some chunks were received.
C7_Witness ==
    /\ pc = "done" /\ result = "network_error"
    /\ received # <<>> /\ Len(sent) = 1

---------------------------------------------------------------------------
(* The codec on its own: a header is drawn, from_str is applied to it *)

\* u64 values the written headers carry: small ones, limb boundaries, u64::MAX.
Samples ==
    {U64(0), U64(1), U64(9), U64(10), U64(19), U64(20), U64(65535), U64(65536),
     <<0, 0, 1, 0>>, <<65535, 65535, 65535, 32767>>, U64Max}

\* Characters of the free text after the tag.
RestChars == {" ", "-", "/", "*", "0", "1", "+"}

RestTexts == UNION {[1..n -> RestChars] : n \in 0..MaxRest}

Tags == {BytesTag \o <<" ">>, BytesTag, <<"B", "y", "t", "e", "s", " ">>, <<>>}

\* The decimal text of 2^64, 2^64 + 9 and 10 * u64::MAX: one digit too large or too long.
TooBig ==
    LET m == FmtU64(U64Max)
    IN  {SubSeq(m, 1, Len(m) - 1) \o <<"6">>, SubSeq(m, 1, Len(m) - 2) \o <<"2", "4">>,
         m \o <<"0">>}

\* Headers with a field that is all digits but does not fit a u64, and "junk".
OddTexts ==
    {BytesTag \o <<" ", "*", "/">> \o x : x \in TooBig}
    \cup {BytesTag \o <<" ">> \o x \o <<"-", "1", "/", "2">> : x \in TooBig}
    \cup {BytesTag \o <<" ", "0", "-">> \o x \o <<"/", "2">> : x \in TooBig}
    \cup {BytesTag \o <<" ", "0", "-", "1", "/">> \o x : x \in TooBig}
    \cup {<<"j", "u", "n", "k">>}

FetchIdle ==
    /\ disk = <<>> /\ pc = "idle" /\ result = "none" /\ start = 0 /\ total = U64Zero
    /\ amount = 0 /\ outer = <<>> /\ inner = <<>> /\ body = <<>> /\ orig = <<>>
    /\ received = <<>> /\ sent = <<>> /\ reply = NoReply /\ body0 = <<>>
    /\ server = "conforming" /\ disk0 = <<>> /\ fetches = 0

InitParse ==
    /\ FetchIdle /\ OrchIdle /\ ChainIdle /\ HashIdle /\ LibIdle /\ TasksIdle
    /\ parsed = NotParsed
    /\ \/ \E a, b, s \in Samples : args = Full(a, b, s) /\ hdr = FullText(a, b, s)
       \/ \E s \in Samples : args = Size(s) /\ hdr = SizeText(s)
       \/ \E t \in Tags, r \in RestTexts : args = NoArgs /\ hdr = t \o r
       \/ \E x \in OddTexts : args = NoArgs /\ hdr = x

\* `header.parse::<ContentRange>()`.
DoParse ==
    /\ parsed = NotParsed
    /\ parsed' = FromStr(hdr)
    /\ UNCHANGED <<hdr, args, fvars, ovars, cvars, xvars>>

NextParse == DoParse

SpecParse == InitParse /\ [][NextParse]_vars

---------------------------------------------------------------------------
(* Properties of from_str *)

\* One or more decimal digits.
IsDigits(s) == Len(s) > 0 /\ \A i \in 1..Len(s) : IsDigit(s[i])

\* The decimal text of u64::MAX.
MaxText ==
    <<"1", "8", "4", "4", "6", "7", "4", "4", "0", "7",
      "3", "7", "0", "9", "5", "5", "1", "6", "1", "5">>

\* s <= t for digit texts of one length.
DigitsLeq(s, t) ==
    \/ s = t
    \/ \E i \in 1..Len(s) :
         /\ DigitVal(s[i]) < DigitVal(t[i])
         /\ \A j \in 1..(i - 1) : s[j] = t[j]

\* The digits s, leading zeros aside, write a number of at most u64::MAX.
FitsU64(s) ==
    LET z == IF \A i \in 1..Len(s) : s[i] = "0" THEN Len(s)
             ELSE (CHOOSE i \in 1..Len(s) : s[i] # "0" /\ \A j \in 1..(i - 1) : s[j] = "0") - 1
        sig == SubSeq(s, z + 1, Len(s))
    IN  Len(sig) < Len(MaxText) \/ (Len(sig) = Len(MaxText) /\ DigitsLeq(sig, MaxText))

\* An unsigned integer as C9 has it: digits.
UnsignedText(s) == IsDigits(s)

\* The field texts `parse::<u64>` takes: digits after an optional '+', in range.
U64Text(s) ==
    LET d == IF Len(s) > 0 /\ s[1] = "+" THEN Tail(s) ELSE s
    IN  IsDigits(d) /\ FitsU64(d)

\* A field text: digits when `strict`, else what `parse::<u64>` takes.
FieldText(s, strict) == IF strict THEN UnsignedText(s) ELSE U64Text(s)

\* h is "bytes", one space, then <start>-<end>/<size> or */<size>, every field
\* a field text.
TwoShapes(h, strict) ==
    /\ Len(h) > Len(BytesTag) + 1
    /\ SubSeq(h, 1, Len(BytesTag) + 1) = <<"b", "y", "t", "e", "s", " ">>
    /\ LET r == SubSeq(h, Len(BytesTag) + 2, Len(h))
       IN  \/ \E i, j \in 1..Len(r) :
                 /\ i < j /\ r[i] = "-" /\ r[j] = "/"
                 /\ FieldText(SubSeq(r, 1, i - 1), strict)
                 /\ FieldText(SubSeq(r, i + 1, j - 1), strict)
                 /\ FieldText(SubSeq(r, j + 1, Len(r)), strict)
           \/ /\ Len(r) > 2 /\ r[1] = "*" /\ r[2] = "/"
              /\ FieldText(SubSeq(r, 3, Len(r)), strict)

IsDescriptor(r) == r.tag \in {"Full", "Size"}

\* C8: a header written from a descriptor with u64 fields parses back to that
\* descriptor, Full and size-only alike; the spec's three examples come out as
\* given; a header with no space in it fails with MissingSpace.
C8_ParseExamples ==
    parsed # NotParsed
      => /\ args # NoArgs => parsed = args
         /\ hdr = <<"b", "y", "t", "e", "s", " ", "1", "0", "-", "1", "9", "/", "2", "0">>
              => parsed = Full(<<10, 0, 0, 0>>, <<19, 0, 0, 0>>, <<20, 0, 0, 0>>)
         /\ hdr = <<"b", "y", "t", "e", "s", " ", "*", "/", "2", "0">>
              => parsed = Size(<<20, 0, 0, 0>>)
         /\ (\A i \in 1..Len(hdr) : hdr[i] # " ")
              => parsed.tag = "Err" /\ parsed.err = "MissingSpace"

\* A Full header carrying u64::MAX and 65536 parsed back to its descriptor.
C8_Witness ==
    /\ parsed.tag = "Full" /\ parsed = args
    /\ parsed.size = U64Max /\ parsed.end = <<0, 1, 0, 0>> /\ parsed.start = <<9, 0, 0, 0>>

\* C9 as claimed: from_str returns a descriptor exactly for the two shapes with
\* every field an unsigned integer.
C9_AsClaimed ==
    parsed # NotParsed => (IsDescriptor(parsed) <=> TwoShapes(hdr, TRUE))

\* C9 amended: from_str returns a descriptor exactly for the two shapes with
\* every field one or more digits, optionally after one '+', whose value is at
\* most 2^64 - 1; every other text yields a parse error.
C9_TwoShapesOnly ==
    parsed # NotParsed
      => /\ IsDescriptor(parsed) <=> TwoShapes(hdr, FALSE)
         /\ ~IsDescriptor(parsed) <=> parsed.tag = "Err"

\* A size-only header whose size is written with a '+' was accepted.
C9_Witness ==
    /\ hdr = <<"b", "y", "t", "e", "s", " ", "*", "/", "+", "1">>
    /\ parsed = Size(<<1, 0, 0, 0>>)

\* The text before and after the first c of s, written with quantifiers.
HasChar(s, c) == \E i \in 1..Len(s) : s[i] = c
FirstAt(s, c) == CHOOSE i \in 1..Len(s) : s[i] = c /\ \A j \in 1..(i - 1) : s[j] # c
Before(s, c) == SubSeq(s, 1, FirstAt(s, c) - 1)
After(s, c) == SubSeq(s, FirstAt(s, c) + 1, Len(s))

ErrIs(e) == parsed.tag = "Err" /\ parsed.err = e

\* C10 as claimed: each failure names the malformed token.  No space:
\* MissingSpace.  A tag other than "bytes": MissingBytesTag.  No '/' in the
\* range: MissingSlash.  "*/<size>" with a size that is no u64 text, a '-' in
\* it included: InvalidSize.  A range with a '/' and no '-', the text before
\* the '/' not "*": MissingStar.  "<start>-<end>/<size>" (a '-' before the
\* first '/'): the first field that is no u64 text, InvalidStart, InvalidEnd
\* or InvalidSize.  (For a '-' only after the '/', the text before the '/' not
\* "*", the claim names no kind.)
C10_AsClaimed ==
    parsed # NotParsed =>
      IF ~HasChar(hdr, " ") THEN ErrIs("MissingSpace")
      ELSE IF Before(hdr, " ") # <<"b", "y", "t", "e", "s">> THEN ErrIs("MissingBytesTag")
      ELSE LET r == After(hdr, " ")
           IN  IF ~HasChar(r, "/") THEN ErrIs("MissingSlash")
               ELSE IF Before(r, "/") = <<"*">>
                    THEN ~U64Text(After(r, "/")) => ErrIs("InvalidSize")
               ELSE IF ~HasChar(r, "-") THEN ErrIs("MissingStar")
               ELSE IF ~HasChar(Before(r, "/"), "-") THEN TRUE
               ELSE LET a == Before(r, "-")
                        b == Before(After(r, "-"), "/")
                        s == After(After(r, "-"), "/")
                    IN  /\ ~U64Text(a) => ErrIs("InvalidStart")
                        /\ U64Text(a) /\ ~U64Text(b) => ErrIs("InvalidEnd")
                        /\ U64Text(a) /\ U64Text(b) /\ ~U64Text(s) => ErrIs("InvalidSize")


\* x <= y on u64.
U64Leq(x, y) == x = y \/ U64Less(x, y)

\* C11 as claimed: every Full descriptor from_str returns has
\* start <= end < size.
C11_AsClaimed ==
    parsed.tag = "Full" =>
      U64Leq(parsed.start, parsed.end) /\ U64Less(parsed.end, parsed.size)


---------------------------------------------------------------------------
(* The download orchestrator: main of downloader.rs.  A fetch task is      *)
(* download_file run on one catalog entry; here it is followed through     *)
(* being spawned, having sent its range request, and its Result.           *)

\* `worker_threads(10)`: the threads of the runtime the tasks are polled on.
WorkerThreads == 10

\* Challenge and response entries of the catalog tried on a faulty network.
CatChallenges == 2
CatResponses == 1

\* The digits "{:04}" writes for n < 10000.
Digits4(n) ==
    <<DigitChars[((n \div 1000) % 10) + 1], DigitChars[((n \div 100) % 10) + 1],
      DigitChars[((n \div 10) % 10) + 1], DigitChars[(n % 10) + 1]>>

\* ArtifactName with the kind of the artifact left out of the name.
ArtifactNameNoKind(kind, n) == <<"artifact_">> \o Digits4(n)

\* The name of a local artifact, "challenge_0007" or "response_0007".
ArtifactName(kind, n) == <<kind>> \o Digits4(n)

\* The catalog literal: challenge k is fetched from the URL numbered k + 1
\* (challenge 0 from "challenge_initial"), response k from the URL numbered k
\* that ends in its contributor's name.
ChallengeEntry(k) ==
    [url  |-> IF k = 0 THEN <<"challenge_initial">> ELSE ArtifactName("challenge_", k + 1),
     path |-> ArtifactName("challenge_", k)]
ResponseEntry(k) ==
    [url  |-> ArtifactName("response_", k) \o <<"_contributor">>,
     path |-> ArtifactName("response_", k)]

\* The number of challenge entries and of response entries of the literal.
LiteralChallenges == 72

LiteralResponses == 70

\* The literal cut to its first c challenge entries and first r response
\* entries, in the literal's order.
Catalog(c, r) ==
    [e \in 1..(c + r) |-> IF e <= c THEN ChallengeEntry(e - 1) ELSE ResponseEntry(e - c)]

CodecIdle == hdr = <<>> /\ args = NoArgs /\ parsed = NotParsed

\* block_on has been entered: `handles` is empty, the for loop is at the first
\* entry.  A faulty network is followed on the short catalog, a healthy one
\* (every probe answers 200, every transfer succeeds) on a catalog one entry
\* longer than the number of worker threads, and a server from which every
\* artifact is gone (every probe answers another status than 200) on the
\* whole literal.
InitOrch ==
    /\ FetchIdle /\ CodecIdle /\ ChainIdle /\ HashIdle /\ LibIdle /\ TasksIdle
    /\ \/ network = "faulty" /\ catalog = Catalog(CatChallenges, CatResponses)
       \/ network = "healthy" /\ catalog = Catalog(WorkerThreads, 1)
       \/ network = "gone" /\ catalog = Catalog(LiteralChallenges, LiteralResponses)
    /\ opc = "probing" /\ nextEntry = 1
    /\ probe = [e \in DOMAIN catalog |-> "none"]
    /\ task = [e \in DOMAIN catalog |-> "none"]
    /\ handles = <<>>
    /\ oresult = NoResult

\* main returns r: block_on ends and the runtime is dropped, and with it
\* every task that has not completed.
ReturnMain(r) ==
    /\ opc' = "returned"
    /\ oresult' = r
    /\ task' = [e \in DOMAIN task |->
                  IF task[e] \in {"spawned", "inflight"} THEN "cancelled" ELSE task[e]]

OrchErr(f, e) == [tag |-> "Err", from |-> f, entry |-> e]
OrchOk == [tag |-> "Ok", from |-> "none", entry |-> 0]

\* file_exists is Ok(true): the status was 200, the task is spawned and its
\* handle pushed.
ProbeSpawn ==
    /\ opc = "probing" /\ nextEntry <= Len(catalog)
    /\ network \in {"faulty", "healthy"}
    /\ probe' = [probe EXCEPT ![nextEntry] = "200"]
    /\ task' = [task EXCEPT ![nextEntry] = "spawned"]
    /\ handles' = Append(handles, nextEntry)
    /\ nextEntry' = nextEntry + 1
    /\ UNCHANGED <<catalog, network, opc, oresult, fvars, pvars, cvars, xvars>>

\* ProbeSkip taking the else branch and spawning the task all the same.
ProbeSkipSpawns ==
    /\ opc = "probing" /\ nextEntry <= Len(catalog)
    /\ network \in {"faulty", "gone"}
    /\ probe' = [probe EXCEPT ![nextEntry] = "status"]
    /\ task' = [task EXCEPT ![nextEntry] = "spawned"]
    /\ handles' = Append(handles, nextEntry)
    /\ nextEntry' = nextEntry + 1
    /\ UNCHANGED <<catalog, network, opc, oresult, fvars, pvars, cvars, xvars>>

\* file_exists is Ok(false): another status; the line is printed and the
\* loop goes on.
ProbeSkip ==
    /\ opc = "probing" /\ nextEntry <= Len(catalog)
    /\ network \in {"faulty", "gone"}
    /\ probe' = [probe EXCEPT ![nextEntry] = "status"]
    /\ nextEntry' = nextEntry + 1
    /\ UNCHANGED <<catalog, network, opc, task, handles, oresult, fvars, pvars, cvars, xvars>>

\* file_exists is Ok(false) and `multibar.println(..)?` fails.
PrintlnFail ==
    /\ opc = "probing" /\ nextEntry <= Len(catalog)
    /\ network = "faulty"
    /\ probe' = [probe EXCEPT ![nextEntry] = "status"]
    /\ ReturnMain(OrchErr("println", nextEntry))
    /\ UNCHANGED <<catalog, network, nextEntry, handles, fvars, pvars, cvars, xvars>>

\* ProbeTransportError taking the failed probe for a missing file: the loop
\* goes on to the next entry.
ProbeTransportErrorSkips ==
    /\ opc = "probing" /\ nextEntry <= Len(catalog)
    /\ network = "faulty"
    /\ probe' = [probe EXCEPT ![nextEntry] = "transport"]
    /\ nextEntry' = nextEntry + 1
    /\ UNCHANGED <<catalog, network, opc, task, handles, oresult, fvars, pvars, cvars, xvars>>

\* `send().await?` in file_exists fails, and `file_exists(..).await?` in main
\* returns the error.
ProbeTransportError ==
    /\ opc = "probing" /\ nextEntry <= Len(catalog)
    /\ network = "faulty"
    /\ probe' = [probe EXCEPT ![nextEntry] = "transport"]
    /\ ReturnMain(OrchErr("probe", nextEntry))
    /\ UNCHANGED <<catalog, network, nextEntry, handles, fvars, pvars, cvars, xvars>>

\* A spawned task is polled up to the response of its range request.
TaskSend(e) ==
    /\ opc = "probing"
    /\ task[e] = "spawned"
    /\ task' = [task EXCEPT ![e] = "inflight"]
    /\ UNCHANGED <<catalog, network, opc, nextEntry, probe, handles, oresult, fvars,
                   pvars, cvars, xvars>>

\* download_file returns Ok(()).
TaskFinish(e) ==
    /\ opc = "probing"
    /\ task[e] = "inflight"
    /\ task' = [task EXCEPT ![e] = "ok"]
    /\ UNCHANGED <<catalog, network, opc, nextEntry, probe, handles, oresult, fvars,
                   pvars, cvars, xvars>>

\* download_file returns an error, before or after its request was sent.
TaskFail(e) ==
    /\ opc = "probing"
    /\ network = "faulty"
    /\ task[e] \in {"spawned", "inflight"}
    /\ task' = [task EXCEPT ![e] = "err"]
    /\ UNCHANGED <<catalog, network, opc, nextEntry, probe, handles, oresult, fvars,
                   pvars, cvars, xvars>>

\* Every task behind a handle has returned.  (download_file has no call that
\* panics and no task is aborted, so no handle yields a JoinError.)
AllJoined == \A a \in 1..Len(handles) : task[handles[a]] \in {"ok", "err"}

\* The first handle, in the order pushed, whose task returned an error.
FirstErr ==
    handles[CHOOSE a \in 1..Len(handles) :
              /\ task[handles[a]] = "err"
              /\ \A b \in 1..(a - 1) : task[handles[b]] # "err"]

\* try_join_all(handles) has every task's Result and none is an error.
JoinOk ==
    /\ opc = "probing" /\ nextEntry > Len(catalog)
    /\ AllJoined
    /\ \A a \in 1..Len(handles) : task[handles[a]] = "ok"
    /\ ReturnMain(OrchOk)
    /\ UNCHANGED <<catalog, network, nextEntry, probe, handles, fvars, pvars, cvars, xvars>>

\* JoinErr dropping the error of the failed task.
JoinErrDropped ==
    /\ opc = "probing" /\ nextEntry > Len(catalog)
    /\ AllJoined
    /\ \E a \in 1..Len(handles) : task[handles[a]] = "err"
    /\ ReturnMain(OrchOk)
    /\ UNCHANGED <<catalog, network, nextEntry, probe, handles, fvars, pvars, cvars, xvars>>

\* try_join_all(handles) has every task's Result; `result?` returns the first
\* error in the order of the handles.
JoinErr ==
    /\ opc = "probing" /\ nextEntry > Len(catalog)
    /\ AllJoined
    /\ \E a \in 1..Len(handles) : task[handles[a]] = "err"
    /\ ReturnMain(OrchErr("task", FirstErr))
    /\ UNCHANGED <<catalog, network, nextEntry, probe, handles, fvars, pvars, cvars, xvars>>

NextOrch ==
    \/ ProbeSpawn
    \/ ProbeSkip
    \/ PrintlnFail
    \/ ProbeTransportError
    \/ \E e \in DOMAIN catalog : TaskSend(e)
    \/ \E e \in DOMAIN catalog : TaskFinish(e)
    \/ \E e \in DOMAIN catalog : TaskFail(e)
    \/ JoinOk
    \/ JoinErr

SpecOrch == InitOrch /\ [][NextOrch]_vars

---------------------------------------------------------------------------
(* Properties of the orchestrator *)

\* The entries whose task was launched.
Launched == {handles[a] : a \in 1..Len(handles)}

\* The existence probe of entry e failed: another status than 200, or no
\* status at all.
ProbeFailed(e) == probe[e] \in {"status", "transport"}

\* The entries whose task returned an error.
Failed == {e \in DOMAIN task : task[e] = "err"}

\* C12 as claimed: when main has returned and the one fault of the run was
\* the failed probe of one entry j (no other probe failed, no transfer
\* failed, the log line was printed), the task of every other entry was
\* launched and returned Ok.
C12_AsClaimed ==
    \A j \in DOMAIN catalog :
      (/\ opc = "returned"
       /\ ProbeFailed(j)
       /\ oresult.from # "println"
       /\ \A e \in DOMAIN catalog \ {j} : ~ProbeFailed(e) /\ task[e] # "err")
      => \A e \in DOMAIN catalog \ {j} : task[e] = "ok"


\* C13 as claimed: when main has returned and a launched task returned an
\* error, every launched task has run to its own completion.
C13_AsClaimed ==
    (opc = "returned" /\ Failed # {}) =>
      \A e \in Launched : task[e] \in {"ok", "err"}

\* The entries the error in r identifies.
Named(r) == IF r.tag = "Err" /\ r.from = "task" THEN {r.entry} ELSE {}

\* C14 as claimed: when main returns after every launched task has returned
\* and two or more of them returned an error, its result identifies every
\* failed entry.
C14_AsClaimed ==
    (/\ opc = "returned"
     /\ oresult.from \notin {"probe", "println"}
     /\ Cardinality(Failed) >= 2)
    => oresult.tag = "Err" /\ Failed \subseteq Named(oresult)

\* The tasks that have sent their range request and not completed.
InFlight == {e \in DOMAIN task : task[e] = "inflight"}

\* C15 as claimed: at most WorkerThreads transfers are in flight.
C15_AsClaimed == Cardinality(InFlight) <= WorkerThreads

\* C16: no two launched fetch tasks have the same local artifact path.
C16_SingleWriter ==
    \A a, b \in 1..Len(handles) :
      a # b => catalog[handles[a]].path # catalog[handles[b]].path

\* C16 witness: the tasks of a challenge and of a response of the same number
\* are in flight together.
C16_Witness ==
    \E a, b \in DOMAIN catalog :
      /\ task[a] = "inflight" /\ task[b] = "inflight"
      /\ catalog[a].path[1] # catalog[b].path[1]
      /\ SubSeq(catalog[a].path, 2, 5) = SubSeq(catalog[b].path, 2, 5)


---------------------------------------------------------------------------
(* The verification chain: main of verify_ppot.rs.  An accumulator is      *)
(* known by the artifact it was parsed from; the verdict of the external   *)
(* verify_transform is the environment's choice.                           *)

\* NUM_ROUNDS (71 in the source).
NumRounds == 3

\* challenge_paths with the range `0..n` that ends before n.
ChallengePathsToN(n) == [k \in 0..(n - 1) |-> ArtifactName("challenge_", k)]

\* challenge_paths(n): the Vec, indexed from 0, of challenge_0000 .. challenge_n.
challenge_paths(n) == [k \in 0..n |-> ArtifactName("challenge_", k)]

\* response_paths with its range starting at 0, as challenge_paths has it.
ResponsePathsFromZero(n) == [k \in 0..n |-> ArtifactName("response_", k)]

\* response_paths(n): the Vec, indexed from 0, of response_0001 .. response_n.
response_paths(n) == [k \in 0..(n - 1) |-> ArtifactName("response_", k + 1)]

challenges == challenge_paths(NumRounds)
responses == response_paths(NumRounds)

\* `1..NUM_ROUNDS` with NUM_ROUNDS itself in the range.
RoundsInclusive(n) == 1..n

\* The values of i in `for i in 1..NUM_ROUNDS`: the range is half-open.
Rounds(n) == 1..(n - 1)

\* The paths the two lists name.
ArtifactPaths ==
    {challenges[k] : k \in DOMAIN challenges} \cup {responses[k] : k \in DOMAIN responses}

\* A file is absent (it cannot be opened), garbled (it opens, and cannot be
\* mapped or parsed) or good.
FileStates == {"absent", "garbled", "good"}

\* try_into_mmap(path) is Some.
TryIntoMmap(path) == fs[path] # "absent"

\* read_subaccumulator on the map of path: the state parsed from the file.
ReadSubaccumulator(path) ==
    IF TryIntoMmap(path) /\ fs[path] = "good" THEN [tag |-> "Ok", acc |-> [of |-> path]]
    ELSE [tag |-> "Err", acc |-> NoAcc]

\* The first 64 bytes and the proof read from the map of path.
ReadResponse(path) ==
    IF TryIntoMmap(path) /\ fs[path] = "good" THEN [tag |-> "Ok", acc |-> [of |-> path]]
    ELSE [tag |-> "Err", acc |-> NoAcc]

\* Accumulator::verify_transform(last, next, challenge, proof): an error, or
\* the next accumulator now verified.
VerifyTransform(last, next, response, verdict) ==
    IF verdict THEN [tag |-> "Ok", acc |-> next] ELSE [tag |-> "Err", acc |-> NoAcc]

\* OkArm with the accumulator of the call thrown away.
OkArmKeepsPrev(p, accumulator) == p

\* `Ok(accumulator) => { println!(..); accumulator }`: the new value of prev.
OkArm(p, accumulator) == accumulator

\* ErrArm without the recovery: prev is left as it was.
ErrArmKeepsPrev(p, reread) == p

\* `Err(e) => { println!(..); read_subaccumulator(challenges[i + 1]).unwrap() }`:
\* the new value of prev.
ErrArm(p, reread) == reread

\* "Verified round i" and "Verification error e occurred checking round i".
Line(outcome, r) == [round |-> r, outcome |-> outcome]

InitChain ==
    /\ FetchIdle /\ CodecIdle /\ OrchIdle /\ HashIdle /\ LibIdle /\ TasksIdle
    /\ fs \in [ArtifactPaths -> FileStates]
    /\ cpc = "start" /\ round = 0 /\ prev = NoAcc
    /\ report = <<>> /\ calls = <<>> /\ reads = <<>>

\* prev is read from challenges[1] and the loop is entered.
StartChain ==
    /\ cpc = "start"
    /\ ReadSubaccumulator(challenges[1]).tag = "Ok"
    /\ reads' = Append(reads, challenges[1])
    /\ prev' = ReadSubaccumulator(challenges[1]).acc
    /\ cpc' = "loop"
    /\ round' = 1
    /\ UNCHANGED <<fs, report, calls, fvars, pvars, ovars, xvars>>

\* challenges[1] cannot be opened or parsed: an unwrap() panics.
StartPanic ==
    /\ cpc = "start"
    /\ ReadSubaccumulator(challenges[1]).tag = "Err"
    /\ reads' = Append(reads, challenges[1])
    /\ cpc' = "panicked"
    /\ UNCHANGED <<fs, round, prev, report, calls, fvars, pvars, ovars, xvars>>

\* Round i has both its indices in bounds and both its artifacts readable.
RoundReady ==
    /\ cpc = "loop" /\ round \in Rounds(NumRounds)
    /\ round + 1 \in DOMAIN challenges /\ round \in DOMAIN responses
    /\ ReadSubaccumulator(challenges[round + 1]).tag = "Ok"
    /\ ReadResponse(responses[round]).tag = "Ok"

\* The arguments of the call of round i, with its verdict.
Call(verdict) ==
    [round |-> round, prev |-> prev,
     next |-> ReadSubaccumulator(challenges[round + 1]).acc,
     response |-> ReadResponse(responses[round]).acc, verdict |-> verdict]

\* RoundVerified with the line of the round left unprinted.
RoundVerifiedSilent ==
    /\ RoundReady
    /\ LET c == Call(TRUE)
           v == VerifyTransform(c.prev, c.next, c.response, TRUE)
       IN  /\ calls' = Append(calls, c)
           /\ prev' = OkArm(prev, v.acc)
    /\ reads' = reads \o <<challenges[round + 1], responses[round]>>
    /\ round' = round + 1
    /\ UNCHANGED <<fs, cpc, report, fvars, pvars, ovars, xvars>>

\* A round whose transform verifies.
RoundVerified ==
    /\ RoundReady
    /\ LET c == Call(TRUE)
           v == VerifyTransform(c.prev, c.next, c.response, TRUE)
       IN  /\ calls' = Append(calls, c)
           /\ prev' = OkArm(prev, v.acc)
    /\ reads' = reads \o <<challenges[round + 1], responses[round]>>
    /\ report' = Append(report, Line("verified", round))
    /\ round' = round + 1
    /\ UNCHANGED <<fs, cpc, fvars, pvars, ovars, xvars>>

\* RoundFailed with the scan ended by the failure.
RoundFailedHalts ==
    /\ RoundReady
    /\ calls' = Append(calls, Call(FALSE))
    /\ prev' = ErrArm(prev, ReadSubaccumulator(challenges[round + 1]).acc)
    /\ reads' = reads \o <<challenges[round + 1], responses[round], challenges[round + 1]>>
    /\ report' = Append(report, Line("error", round))
    /\ round' = round + 1
    /\ cpc' = "done"
    /\ UNCHANGED <<fs, fvars, pvars, ovars, xvars>>

\* A round whose transform is refused: the error is printed and prev is read
\* again from challenges[i + 1].
RoundFailed ==
    /\ RoundReady
    /\ calls' = Append(calls, Call(FALSE))
    /\ prev' = ErrArm(prev, ReadSubaccumulator(challenges[round + 1]).acc)
    /\ reads' = reads \o <<challenges[round + 1], responses[round], challenges[round + 1]>>
    /\ report' = Append(report, Line("error", round))
    /\ round' = round + 1
    /\ UNCHANGED <<fs, cpc, fvars, pvars, ovars, xvars>>

\* RoundPanic passing over the round whose artifact cannot be read.
RoundPanicSkips ==
    /\ cpc = "loop" /\ round \in Rounds(NumRounds)
    /\ ~RoundReady
    /\ reads' = Append(reads, challenges[round + 1])
    /\ round' = round + 1
    /\ UNCHANGED <<fs, cpc, prev, report, calls, fvars, pvars, ovars, xvars>>

\* A round that panics: an index is out of bounds, or challenges[i + 1] or
\* responses[i] cannot be opened or parsed.
RoundPanic ==
    /\ cpc = "loop" /\ round \in Rounds(NumRounds)
    /\ ~RoundReady
    /\ reads' =
         IF round + 1 \notin DOMAIN challenges THEN reads
         ELSE IF ReadSubaccumulator(challenges[round + 1]).tag = "Err"
              THEN Append(reads, challenges[round + 1])
         ELSE IF round \notin DOMAIN responses THEN Append(reads, challenges[round + 1])
         ELSE reads \o <<challenges[round + 1], responses[round]>>
    /\ cpc' = "panicked"
    /\ UNCHANGED <<fs, round, prev, report, calls, fvars, pvars, ovars, xvars>>

\* The range is exhausted and main returns.
LoopEnd ==
    /\ cpc = "loop" /\ round \notin Rounds(NumRounds)
    /\ cpc' = "done"
    /\ UNCHANGED <<fs, round, prev, report, calls, reads, fvars, pvars, ovars, xvars>>

NextChain ==
    \/ StartChain
    \/ StartPanic
    \/ RoundVerified
    \/ RoundFailed
    \/ RoundPanic
    \/ LoopEnd

SpecChain == InitChain /\ [][NextChain]_vars


---------------------------------------------------------------------------
(* Properties of the verification chain *)

\* main has returned or panicked.
Terminated == cpc \in {"done", "panicked"}

\* A line was printed for round r.
Reported(r) == \E k \in 1..Len(report) : report[k].round = r

\* Round r was reported as a verification error.
FailedRound(r) == \E k \in 1..Len(report) : report[k] = Line("error", r)

\* The artifacts round r reads can be opened and parsed.
Readable(r) == fs[challenges[r + 1]] = "good" /\ fs[responses[r]] = "good"

ChallengeState(k) == [of |-> ArtifactName("challenge_", k)]

\* C18: after a call that failed in round i, prev is the state parsed from
\* the challenge at index i+1 and not the accumulator the failed call was
\* given; the next call is given that state, the state parsed from the
\* challenge at index i+2 and the response at index i+1, all artifacts of
\* round i+1.
C18_RecoveryBaseline ==
    \A k \in 1..Len(calls) :
      ~calls[k].verdict =>
        LET i == calls[k].round
        IN  /\ k = Len(calls) => prev = ChallengeState(i + 1) /\ prev # calls[k].prev
            /\ k < Len(calls) =>
                 /\ calls[k + 1].round = i + 1
                 /\ calls[k + 1].prev = ChallengeState(i + 1)
                 /\ calls[k + 1].prev # calls[k].prev
                 /\ calls[k + 1].next = ChallengeState(i + 2)
                 /\ calls[k + 1].response = [of |-> responses[i + 1]]

\* C18 witness: round 1 failed and round 2 has been called.
C18_Witness == Len(calls) >= 2 /\ ~calls[1].verdict

\* C19: a call that succeeded in round i has printed "Verified round i" as the
\* line of that round, its nextState was the state parsed from the challenge
\* at index i+1, and prev for round i+1 is that nextState.
C19_SuccessTransition ==
    \A k \in 1..Len(calls) :
      calls[k].verdict =>
        LET i == calls[k].round
        IN  /\ Len(report) >= k /\ report[k] = Line("verified", i)
            /\ Cardinality({x \in 1..Len(report) : report[x].round = i}) = 1
            /\ calls[k].next = ChallengeState(i + 1)
            /\ k = Len(calls) => prev = calls[k].next
            /\ k < Len(calls) => calls[k + 1].round = i + 1 /\ calls[k + 1].prev = calls[k].next

\* C19 witness: round 1 verified and round 2 has been called.
C19_Witness == Len(calls) >= 2 /\ calls[1].verdict

\* The paths round k opens, in order: the challenge at index k+1, the response
\* at index k, and the challenge again when the call failed.
RoundReads(k) ==
    <<challenges[k + 1], responses[k]>>
      \o (IF calls[k].verdict THEN <<>> ELSE <<challenges[k + 1]>>)

RECURSIVE ReadsUpTo(_)
ReadsUpTo(k) == IF k = 0 THEN <<challenges[1]>> ELSE ReadsUpTo(k - 1) \o RoundReads(k)

\* The rounds called so far are 1, 2, .., in this order, each once, and the
\* files opened are challenges[1], then challenges[i+1] and responses[i] for
\* each of them.
InOrder ==
    /\ Len(calls) <= NumRounds - 1
    /\ \A k \in 1..Len(calls) : calls[k].round = k
    /\ reads # <<>> => IsPrefix(ReadsUpTo(Len(calls)), reads)
    /\ Len(calls) > 0 => calls[1].prev = [of |-> challenges[1]]

C21_FullReport ==
    cpc = "done" =>
      /\ Len(report) = NumRounds - 1
      /\ Len(calls) = NumRounds - 1
      /\ \A r \in 1..(NumRounds - 1) :
           /\ Cardinality({x \in 1..Len(report) : report[x].round = r}) = 1
           /\ report[r] = Line(IF calls[r].verdict THEN "verified" ELSE "error", r)

\* C21 witness: main has returned and the report holds a verified round
\* followed by a failed one.
C21_Witness ==
    /\ cpc = "done"
    /\ Len(report) = NumRounds - 1
    /\ report[1].outcome = "verified"
    /\ report[2].outcome = "error"

(***************************************************************************)
(* Hashing: calculate_hash of src/lib.rs.  The hasher is the blake2        *)
(* crate's Blake2b, whose code is not in the repository; it is modelled    *)
(* as a streaming hash: a state that absorbs the bytes it is given one by  *)
(* one and a finalisation that maps the state to HashLen bytes.            *)
(***************************************************************************)

\* The length of a digest, [u8; 64].
HashLen == 64

\* The chunk the file is hashed by, 1 << 30.
ChunkSize == 1073741824

\* Blake2b::default(): nothing absorbed.
Blake2bDefault == [h |-> 7, n |-> 0]

\* hasher.update(data): the bytes are absorbed in order, the first half of
\* the data before the second; n counts them, and data that does not move
\* the count leaves the state as it is.
RECURSIVE Blake2bUpdate(_, _)
Blake2bUpdate(hasher, data) ==
    IF hasher.n + Len(data) = hasher.n THEN hasher
    ELSE IF Len(data) = 1
    THEN [h |-> (hasher.h * 31 + data[1] + 1) % 65521, n |-> hasher.n + 1]
    ELSE LET half == Len(data) \div 2
         IN  Blake2bUpdate(Blake2bUpdate(hasher, SubSeq(data, 1, half)),
                           SubSeq(data, half + 1, Len(data)))

\* hasher.finalize(): HashLen bytes that depend on all that was absorbed.
Blake2bFinalize(hasher) ==
    [i \in 1..HashLen |->
        IF i % 2 = 1 THEN (hasher.h + hasher.n + i) % 256
        ELSE ((hasher.h \div 256) + i) % 256]

\* A chunking that loses the last, shorter chunk.
RECURSIVE ChunksDropTail(_, _)
ChunksDropTail(slice, chunk_size) ==
    IF Len(slice) < chunk_size THEN <<>>
    ELSE <<SubSeq(slice, 1, chunk_size)>>
         \o ChunksDropTail(SubSeq(slice, chunk_size + 1, Len(slice)), chunk_size)

\* slice.chunks(chunk_size): consecutive pieces of chunk_size elements, the
\* last one shorter when the length is no multiple; none for an empty slice.
RECURSIVE Chunks(_, _)
Chunks(slice, chunk_size) ==
    IF slice = <<>> THEN <<>>
    ELSE LET n == IF chunk_size <= Len(slice) THEN chunk_size ELSE Len(slice)
         IN  <<SubSeq(slice, 1, n)>>
             \o Chunks(SubSeq(slice, n + 1, Len(slice)), chunk_size)

\* The loop of calculate_hash: every chunk is handed to the hasher in turn.
RECURSIVE UpdateAll(_, _)
UpdateAll(hasher, chunks) ==
    IF chunks = <<>> THEN hasher
    ELSE UpdateAll(Blake2bUpdate(hasher, Head(chunks)), Tail(chunks))

\* calculate_hash with its chunk size as a parameter.
HashChunked(input_map, chunk_size) ==
    Blake2bFinalize(UpdateAll(Blake2bDefault, Chunks(input_map, chunk_size)))

calculate_hash(input_map) == HashChunked(input_map, ChunkSize)

(***************************************************************************)
(* The hash consistency scan: `main` of src/bin/hash_check.rs.  A file of  *)
(* the working directory is its bytes; an artifact is HashLen bytes of     *)
(* embedded hash followed by its payload.                                  *)
(***************************************************************************)

\* NUM_ROUNDS of hash_check.rs, scaled down.
CheckRounds == 3

\* How many files of the directory differ from an honest ceremony's.
MaxFaults == 2

\* hash_path: the path with "_hash" pushed onto it.
HashPath(path) == path \o <<"_hash">>

\* file.read into a zeroed buffer of HashLen bytes: the bytes the file holds,
\* up to HashLen of them, and zeros behind them.
ReadHash(file) ==
    [i \in 1..HashLen |-> IF i <= Len(file.bytes) THEN file.bytes[i] ELSE 0]

\* The artifacts of an honest ceremony: every response embeds the digest of
\* the challenge it answers, every challenge that of the response it follows.
RECURSIVE HonestChallenge(_)
RECURSIVE HonestResponse(_)
HonestChallenge(k) ==
    IF k = 0 THEN [i \in 1..HashLen |-> 0] \o <<0>>
    ELSE calculate_hash(HonestResponse(k)) \o <<k>>

HonestResponse(k) == calculate_hash(HonestChallenge(k - 1)) \o <<100 + k>>

\* The directory of an honest ceremony after the hashing pass: the artifacts
\* challenge_0000 .. challenge_n and response_0001 .. response_n, and beside
\* each its _hash file holding its digest.
HonestDir(n) ==
    LET cs == challenge_paths(n)
        rs == response_paths(n)
        C == {cs[k] : k \in 0..n}
        R == {rs[k] : k \in 0..(n - 1)}
        Bytes(p) == IF p \in C
                    THEN HonestChallenge(CHOOSE k \in 0..n : cs[k] = p)
                    ELSE HonestResponse((CHOOSE k \in 0..(n - 1) : rs[k] = p) + 1)
    IN  [p \in C \cup R \cup {HashPath(q) : q \in C \cup R} |->
            IF p \in C \cup R THEN File(Bytes(p))
            ELSE File(calculate_hash(Bytes(SubSeq(p, 1, Len(p) - 1))))]

\* A file that is missing, that is empty, or whose first or last byte is
\* another one.
Faulty(file, kind) ==
    LET b == file.bytes
        Flip(i) == [b EXCEPT ![i] = (b[i] + 1) % 256]
    IN  CASE kind = "absent" -> Absent
          [] kind = "empty" -> File(<<>>)
          [] kind = "head" -> File(Flip(1))
          [] kind = "tail" -> File(Flip(Len(b)))

\* The directories that differ from the honest one in at most MaxFaults files.
Directories(n) ==
    LET honest == HonestDir(n)
        Sites == {S \in SUBSET DOMAIN honest : Cardinality(S) <= MaxFaults}
    IN  UNION {{[p \in DOMAIN honest |->
                    IF p \in S THEN Faulty(honest[p], f[p]) ELSE honest[p]]
                : f \in [S -> {"absent", "empty", "head", "tail"}]} : S \in Sites}

\* What a loop of main compares at position k.  The first loop zips the
\* challenges with the responses and reads the recorded hash of the challenge
\* and the head of the response; the second one skips the first challenge
\* and reads the recorded hash of the response and the head of the challenge.
ScanPair(loop, k) ==
    LET challenge == challenge_paths(CheckRounds)[IF loop = "loop1" THEN k ELSE k + 1]
        response == response_paths(CheckRounds)[k]
    IN  [challenge |-> challenge,
         response |-> response,
         recorded |-> HashPath(IF loop = "loop1" THEN challenge ELSE response),
         embedded |-> IF loop = "loop1" THEN response ELSE challenge]

\* main is entered.
InitHashCheck ==
    /\ FetchIdle /\ CodecIdle /\ OrchIdle /\ ChainIdle /\ LibIdle /\ TasksIdle
    /\ dir \in Directories(CheckRounds)
    /\ hpc = "loop1"
    /\ pair = 0
    /\ hout = <<>>
    /\ compared = <<>>
    /\ runs = 0

\* A loop body that leaves the loop at the first difference it prints.
ScanCompareHalts ==
    LET p == ScanPair(hpc, pair)
        computed_hash == ReadHash(dir[p.recorded])
        asserted_hash == ReadHash(dir[p.embedded])
    IN  /\ hpc \in {"loop1", "loop2"}
        /\ pair < CheckRounds
        /\ dir[p.recorded].exists
        /\ dir[p.embedded].exists
        /\ compared' = Append(compared, [loop |-> hpc, pair |-> pair,
                                         computed_hash |-> computed_hash,
                                         asserted_hash |-> asserted_hash])
        /\ hout' = IF computed_hash # asserted_hash
                   THEN Append(hout, [loop |-> hpc,
                                      challenge |-> p.challenge,
                                      response |-> p.response,
                                      computed_hash |-> computed_hash,
                                      asserted_hash |-> asserted_hash])
                   ELSE hout
        /\ pair' = IF computed_hash # asserted_hash THEN CheckRounds ELSE pair + 1
        /\ UNCHANGED <<dir, hpc, runs, fvars, pvars, ovars, cvars, lvars, tvars>>

\* One pass of a loop body: both files are opened and read, the two buffers
\* are compared, a difference is printed.
ScanCompare ==
    LET p == ScanPair(hpc, pair)
        computed_hash == ReadHash(dir[p.recorded])
        asserted_hash == ReadHash(dir[p.embedded])
    IN  /\ hpc \in {"loop1", "loop2"}
        /\ pair < CheckRounds
        /\ dir[p.recorded].exists
        /\ dir[p.embedded].exists
        /\ compared' = Append(compared, [loop |-> hpc, pair |-> pair,
                                         computed_hash |-> computed_hash,
                                         asserted_hash |-> asserted_hash])
        /\ hout' = IF computed_hash # asserted_hash
                   THEN Append(hout, [loop |-> hpc,
                                      challenge |-> p.challenge,
                                      response |-> p.response,
                                      computed_hash |-> computed_hash,
                                      asserted_hash |-> asserted_hash])
                   ELSE hout
        /\ pair' = pair + 1
        /\ UNCHANGED <<dir, hpc, runs, fvars, pvars, ovars, cvars, lvars, tvars>>

\* expect on an open that fails: main panics.
ScanPanic ==
    LET p == ScanPair(hpc, pair)
    IN  /\ hpc \in {"loop1", "loop2"}
        /\ pair < CheckRounds
        /\ ~dir[p.recorded].exists \/ ~dir[p.embedded].exists
        /\ hpc' = "panicked"
        /\ UNCHANGED <<dir, pair, hout, compared, runs, fvars, pvars, ovars, cvars, lvars, tvars>>

\* The zip of a loop is exhausted: the second loop starts after the first,
\* main returns after the second.
ScanEnd ==
    /\ hpc \in {"loop1", "loop2"}
    /\ pair = CheckRounds
    /\ hpc' = IF hpc = "loop1" THEN "loop2" ELSE "done"
    /\ pair' = 0
    /\ UNCHANGED <<dir, hout, compared, runs, fvars, pvars, ovars, cvars, lvars, tvars>>

NextHashCheck ==
    \/ ScanCompare
    \/ ScanPanic
    \/ ScanEnd

SpecHashCheck == InitHashCheck /\ [][NextHashCheck]_vars

\* The hash file and the response the first loop reads at position k.
RecordedFile(k) == dir[ScanPair("loop1", k).recorded]

EmbeddingFile(k) == dir[ScanPair("loop1", k).embedded]

\* The first HashLen bytes of a file, fewer when it is shorter.
Leading(file) ==
    SubSeq(file.bytes, 1, IF Len(file.bytes) < HashLen THEN Len(file.bytes) ELSE HashLen)

\* Both files of position k exist and the hash recorded for the challenge is
\* not the one the response starts with.
Disagree(k) ==
    /\ RecordedFile(k).exists
    /\ EmbeddingFile(k).exists
    /\ Leading(RecordedFile(k)) # Leading(EmbeddingFile(k))

\* The first loop has compared position k, and has printed it as a mismatch.
ComparedAt(k) ==
    \E x \in 1..Len(compared) : compared[x].loop = "loop1" /\ compared[x].pair = k

ReportedAt(k) ==
    \E x \in 1..Len(hout) :
        /\ hout[x].loop = "loop1"
        /\ hout[x].challenge = ScanPair("loop1", k).challenge
        /\ hout[x].response = ScanPair("loop1", k).response

FirstLoopOver == hpc \in {"loop2", "done", "panicked"}

FirstLoopOpens ==
    \A k \in 0..(CheckRounds - 1) : RecordedFile(k).exists /\ EmbeddingFile(k).exists

WrongRecorded(k) ==
    LET challenge == dir[ScanPair("loop1", k).challenge]
    IN  /\ challenge.exists
        /\ RecordedFile(k).exists
        /\ RecordedFile(k).bytes # calculate_hash(challenge.bytes)

\* C23 as stated: a round that the first loop has compared and whose
\* recorded hash is not the digest of the challenge has been printed as a
\* mismatch.
C23_AsClaimed ==
    \A k \in 0..(CheckRounds - 1) :
        (ComparedAt(k) /\ WrongRecorded(k)) => ReportedAt(k)

\* The directory of the end-to-end scenario: an honest ceremony of
\* CheckRounds rounds, hashed, in which only the response of round 2 does not
\* start with the digest of the challenge it answers.
Scenario ==
    dir = [HonestDir(CheckRounds) EXCEPT
              ![response_paths(CheckRounds)[1]] = Faulty(@, "head")]

\* The lines printed hold one for the round of position k that shows two
\* equal hashes.
MarkedVerified(k) ==
    \E x \in 1..Len(hout) :
        /\ hout[x].loop = "loop1"
        /\ hout[x].response = ScanPair("loop1", k).response
        /\ hout[x].computed_hash = hout[x].asserted_hash

\* C24 as stated: after the scan of the scenario's directory the lines
\* printed mark round 2 as a hash mismatch and rounds 1 and 3 as verified.
C24_AsClaimed ==
    (hpc = "done" /\ Scenario) =>
        /\ ReportedAt(1)
        /\ MarkedVerified(0)
        /\ MarkedVerified(2)

(***************************************************************************)
(* The functions of src/lib.rs, each called on its own on an argument      *)
(* drawn from a bounded set.                                               *)
(***************************************************************************)

\* The longest input hashed, and the largest chunk size it is hashed by.
MaxInput == 3

MaxChunk == 4

\* The largest n handed to challenge_paths and response_paths.
MaxPaths == 12

\* The largest number of contributions in the directory get_urls lists.
MaxListing == 43

\* str::parse::<usize> on a short text: an optional "+" and then digits, at
\* least one; -1 stands for Err.
ParseUsize(s) ==
    LET d == IF s # <<>> /\ s[1] = "+" THEN Tail(s) ELSE s
        v(i) == IF i <= Len(d) THEN DigitVal(d[i]) * <<1, 10, 100, 1000>>[Len(d) - i + 1]
                ELSE 0
    IN  IF d # <<>> /\ \A i \in 1..Len(d) : \E x \in 1..10 : DigitChars[x] = d[i]
        THEN v(1) + v(2) + v(3) + v(4)
        ELSE -1

\* parse_participant_name: the text before the first underscore, None when
\* there is no underscore.
parse_participant_name(file_name) ==
    IF \E i \in 1..Len(file_name) : file_name[i] = "_"
    THEN [some |-> TRUE,
          name |-> SubSeq(file_name, 1,
                          (CHOOSE i \in 1..Len(file_name) :
                              /\ file_name[i] = "_"
                              /\ \A j \in 1..(i - 1) : file_name[j] # "_") - 1)]
    ELSE [some |-> FALSE, name |-> <<>>]

\* The loop body with a response pushed for the initial challenge as well.
UrlStepNoGuard(st, file_name) ==
    LET number == ParseUsize(SubSeq(file_name, 1, 4))
        who == parse_participant_name(SubSeq(file_name, 6, Len(file_name)))
    IN  IF st.panicked THEN st
        ELSE IF Len(file_name) < 4 THEN [st EXCEPT !.panicked = TRUE]
        ELSE IF number # st.counter THEN st
        ELSE IF Len(file_name) < 5 \/ ~who.some
        THEN [st EXCEPT !.panicked = TRUE]
        ELSE [counter |-> st.counter + 1,
              challenge_paths |->
                  Append(st.challenge_paths, ArtifactName("challenge_", number + 1)),
              response_paths |->
                  Append(st.response_paths,
                         ArtifactName("response_", number) \o <<"_">> \o who.name),
              panicked |-> FALSE]

\* The body of the loop of get_urls on one entry.  The slices
\* file_name[0..4] and file_name[5..] panic on a name that is too short, the
\* unwrap panics on a name without a participant; an entry whose first four
\* characters are not the number awaited is passed over.
UrlStep(st, file_name) ==
    LET number == ParseUsize(SubSeq(file_name, 1, 4))
        who == parse_participant_name(SubSeq(file_name, 6, Len(file_name)))
    IN  IF st.panicked THEN st
        ELSE IF Len(file_name) < 4 THEN [st EXCEPT !.panicked = TRUE]
        ELSE IF number # st.counter THEN st
        ELSE IF st.counter > 0 /\ (Len(file_name) < 5 \/ ~who.some)
        THEN [st EXCEPT !.panicked = TRUE]
        ELSE [counter |-> st.counter + 1,
              challenge_paths |->
                  Append(st.challenge_paths, ArtifactName("challenge_", number + 1)),
              response_paths |->
                  IF st.counter > 0
                  THEN Append(st.response_paths,
                              ArtifactName("response_", number) \o <<"_">> \o who.name)
                  ELSE st.response_paths,
              panicked |-> FALSE]

\* The loop of get_urls over the sorted entries, the first half of them
\* before the second.
RECURSIVE UrlLoop(_, _)
UrlLoop(st, entries) ==
    IF st.panicked \/ entries = <<>> THEN st
    ELSE IF Len(entries) = 1 THEN UrlStep(st, entries[1])
    ELSE LET half == Len(entries) \div 2
         IN  UrlLoop(UrlLoop(st, SubSeq(entries, 1, half)),
                     SubSeq(entries, half + 1, Len(entries)))

\* get_urls on a directory: Err when it cannot be read; a panic in the loop
\* or at an override whose index is not in the list (a Vec is indexed from 0,
\* a sequence from 1); else Ok with the two lists.
get_urls(listing) ==
    LET st == UrlLoop([counter |-> 0, challenge_paths |-> <<>>,
                       response_paths |-> <<>>, panicked |-> FALSE],
                      listing.entries)
    IN  IF ~listing.readable THEN [tag |-> "err"]
        ELSE IF st.panicked \/ Len(st.challenge_paths) < 2 \/ Len(st.response_paths) < 40
        THEN [tag |-> "panic"]
        ELSE [tag |-> "ok",
              value |->
                [challenges |-> [st.challenge_paths EXCEPT
                                    ![1] = <<"challenge_initial">>,
                                    ![2] = <<"challenge_0002_kobi">>],
                 responses |-> [st.response_paths EXCEPT
                                    ![3] = <<"response_0003_poma">>,
                                    ![4] = <<"response_0004_pepesha">>,
                                    ![12] = <<"response_0012_daniel">>,
                                    ![16] = <<"response_0016_aurel">>,
                                    ![40] = <<"response_0040_weitang">>]]]

\* The sorted listings get_urls is run on: the contributions numbered
\* 0 .. c - 1, with what `also` names added at number j (a second file of
\* that number, a file that is no contribution, a file whose number starts
\* with "+") and what `odd` names wrong at number i (the file is missing, a
\* file of two characters is listed, the file's name has no participant).
Listings ==
    LET Name(k, who) == Digits4(k) \o <<"_", who, "_", "r">>
        Run(lo, hi) == [x \in 1..(hi - lo + 1) |-> Name(lo + x - 1, "a")]
        Spots(c) == {0, 1, c - 2} \cap 0..(c - 1)
        Counts == {0, 1, 2} \cup ((MaxListing - 4)..MaxListing)
        Odd(c, odd, i) ==
            IF c = 0 \/ odd \in {"none", "short"} THEN Run(0, c - 1)
            ELSE Run(0, i - 1)
                 \o (IF odd = "gap" THEN <<>> ELSE <<Digits4(i) \o <<"_", "a">>>>)
                 \o Run(i + 1, c - 1)
        Dup(c, l, j, odd, i) ==
            LET at == IF odd = "gap" /\ i <= j THEN j ELSE j + 1
            IN  IF c = 0 THEN l
                ELSE SubSeq(l, 1, at) \o <<Name(j, "b")>> \o SubSeq(l, at + 1, Len(l))
        List(c, also, j, odd, i) ==
            (IF "plus" \in also THEN <<<<"+", "0", "0", "1", "_", "a", "_", "r">>>> ELSE <<>>)
            \o (IF odd = "short" THEN <<<<"0", "0">>>> ELSE <<>>)
            \o (IF "dup" \in also THEN Dup(c, Odd(c, odd, i), j, odd, i)
                ELSE Odd(c, odd, i))
            \o (IF "junk" \in also THEN <<<<"R", "E", "A", "D", "M", "E">>>> ELSE <<>>)
    IN  {[readable |-> FALSE, entries |-> <<>>]}
        \cup UNION {{[readable |-> TRUE, entries |-> List(c, also, j, odd, i)] :
                        also \in SUBSET {"dup", "junk", "plus"},
                        j \in Spots(c) \cup {0},
                        odd \in {"none", "gap", "short", "noname"},
                        i \in Spots(c) \cup {0}} : c \in Counts}

\* The calls made: calculate_hash on a byte sequence with a chunk size,
\* challenge_paths and response_paths on a number of rounds, get_urls on a
\* directory.
LibCalls ==
    {[fn |-> "calculate_hash", arg |-> [input_map |-> b, chunk_size |-> s]] :
        b \in UNION {[1..l -> {0, 1, 255}] : l \in 0..MaxInput}, s \in 1..MaxChunk}
    \cup {[fn |-> "paths", arg |-> n] : n \in 0..MaxPaths}
    \cup {[fn |-> "get_urls", arg |-> l] : l \in Listings}

InitLib ==
    /\ FetchIdle /\ CodecIdle /\ OrchIdle /\ ChainIdle /\ HashIdle /\ TasksIdle
    /\ call \in LibCalls
    /\ ret = NoRet

\* calculate_hash returns the digest of its input.
CallCalculateHash ==
    /\ call.fn = "calculate_hash"
    /\ ret = NoRet
    /\ ret' = [tag |-> "ok",
               value |-> HashChunked(call.arg.input_map, call.arg.chunk_size)]
    /\ UNCHANGED <<call, fvars, pvars, ovars, cvars, hvars, tvars>>

\* challenge_paths and response_paths return their lists.
CallPaths ==
    /\ call.fn = "paths"
    /\ ret = NoRet
    /\ ret' = [tag |-> "ok",
               value |-> [challenges |-> challenge_paths(call.arg),
                          responses |-> response_paths(call.arg)]]
    /\ UNCHANGED <<call, fvars, pvars, ovars, cvars, hvars, tvars>>

\* get_urls returns, or panics.
CallGetUrls ==
    /\ call.fn = "get_urls"
    /\ ret = NoRet
    /\ ret' = get_urls(call.arg)
    /\ UNCHANGED <<call, fvars, pvars, ovars, cvars, hvars, tvars>>

NextLib ==
    \/ CallCalculateHash
    \/ CallPaths
    \/ CallGetUrls

SpecLib == InitLib /\ [][NextLib]_vars

\* C25: the digest calculate_hash returns is HashLen bytes long, is the same
\* for every chunk size, and is the digest of the input absorbed in one piece.
C25_HashDeterminism ==
    (call.fn = "calculate_hash" /\ ret # NoRet) =>
        /\ Len(ret.value) = HashLen
        /\ \A s \in 1..MaxChunk : HashChunked(call.arg.input_map, s) = ret.value
        /\ ret.value = Blake2bFinalize(Blake2bUpdate(Blake2bDefault, call.arg.input_map))

\* C25 witness: an input hashed in two chunks, the second shorter than the
\* first, has been hashed.
C25_Witness ==
    /\ call.fn = "calculate_hash"
    /\ ret # NoRet
    /\ Len(call.arg.input_map) = 3
    /\ call.arg.chunk_size = 2

(***************************************************************************)
(* The offline hashing pass: `main` and hash_to of src/bin/hasher.rs.  The *)
(* pass can be run again after it has ended, and an artifact that was      *)
(* missing can arrive between two runs.                                    *)
(***************************************************************************)

\* NUM_ROUNDS of hasher.rs, scaled down, and the number of runs followed.
HashRounds == 1

MaxRuns == 2

\* The list a loop of main goes through: response_files in the first loop,
\* challenge_files in the second.
HashList(loop) ==
    IF loop \in {"responses", "responses_open"}
    THEN response_paths(HashRounds)
    ELSE challenge_paths(HashRounds)

\* The artifact the running loop stands at.
HashArtifact == HashList(hpc)[pair]

\* The artifacts of the hashing pass: each is there, is missing, or is an
\* empty file, which cannot be memory-mapped; no hash file exists yet.
HasherDirectories ==
    LET honest == HonestDir(HashRounds)
        A == {p \in DOMAIN honest : p[Len(p)] # "_hash"}
    IN  {[p \in DOMAIN honest |->
            IF p \notin A THEN Absent
            ELSE IF f[p] = "honest" THEN honest[p]
            ELSE Faulty(honest[p], f[p])] :
         f \in [A -> {"honest", "absent", "empty"}]}

\* main is entered for the first time.
InitHasher ==
    /\ FetchIdle /\ CodecIdle /\ OrchIdle /\ ChainIdle /\ LibIdle /\ TasksIdle
    /\ dir \in HasherDirectories
    /\ hpc = "responses"
    /\ pair = 0
    /\ hout = <<>>
    /\ compared = <<>>
    /\ runs = 1

\* HashSkip opening the hash file that exists and hashing the artifact again.
HashSkipRehashes ==
    /\ hpc \in {"responses", "challenges"}
    /\ pair < Cardinality(DOMAIN HashList(hpc))
    /\ dir[HashPath(HashArtifact)].exists
    /\ dir[HashArtifact].exists /\ dir[HashArtifact].bytes # <<>>
    /\ dir' = [dir EXCEPT ![HashPath(HashArtifact)] =
                              File(calculate_hash(dir[HashArtifact].bytes))]
    /\ hout' = Append(hout, [line |-> "has been hashed in", path |-> HashArtifact])
    /\ pair' = pair + 1
    /\ UNCHANGED <<hpc, compared, runs, fvars, pvars, ovars, cvars, lvars, tvars>>

\* create_new fails because the hash file exists: the artifact is printed
\* as hashed and the loop goes on.
HashSkip ==
    /\ hpc \in {"responses", "challenges"}
    /\ pair < Cardinality(DOMAIN HashList(hpc))
    /\ dir[HashPath(HashArtifact)].exists
    /\ hout' = Append(hout, [line |-> "has been hashed", path |-> HashArtifact])
    /\ pair' = pair + 1
    /\ UNCHANGED <<dir, hpc, compared, runs, fvars, pvars, ovars, cvars, lvars, tvars>>

\* create_new succeeds: the hash file exists from now on, and is empty.
HashCreate ==
    /\ hpc \in {"responses", "challenges"}
    /\ pair < Cardinality(DOMAIN HashList(hpc))
    /\ ~dir[HashPath(HashArtifact)].exists
    /\ dir' = [dir EXCEPT ![HashPath(HashArtifact)] = File(<<>>)]
    /\ hpc' = IF hpc = "responses" THEN "responses_open" ELSE "challenges_open"
    /\ UNCHANGED <<pair, hout, compared, runs, fvars, pvars, ovars, cvars, lvars, tvars>>

\* hash_to on an artifact that opens and maps: its digest is written to the
\* hash file, and the time taken is printed.
HashTo ==
    /\ hpc \in {"responses_open", "challenges_open"}
    /\ dir[HashArtifact].exists
    /\ dir[HashArtifact].bytes # <<>>
    /\ dir' = [dir EXCEPT ![HashPath(HashArtifact)] =
                              File(calculate_hash(dir[HashArtifact].bytes))]
    /\ hout' = Append(hout, [line |-> "has been hashed in", path |-> HashArtifact])
    /\ pair' = pair + 1
    /\ hpc' = IF hpc = "responses_open" THEN "responses" ELSE "challenges"
    /\ UNCHANGED <<compared, runs, fvars, pvars, ovars, cvars, lvars, tvars>>

\* hash_to on an artifact that does not open, or that is empty and cannot be
\* mapped: expect panics.
HashToPanic ==
    /\ hpc \in {"responses_open", "challenges_open"}
    /\ ~dir[HashArtifact].exists \/ dir[HashArtifact].bytes = <<>>
    /\ hpc' = "panicked"
    /\ UNCHANGED <<dir, pair, hout, compared, runs, fvars, pvars, ovars, cvars, lvars, tvars>>

\* A list is exhausted: the challenges follow the responses, main returns
\* after the challenges.
HashListEnd ==
    /\ hpc \in {"responses", "challenges"}
    /\ pair = Cardinality(DOMAIN HashList(hpc))
    /\ hpc' = IF hpc = "responses" THEN "challenges" ELSE "done"
    /\ pair' = 0
    /\ UNCHANGED <<dir, hout, compared, runs, fvars, pvars, ovars, cvars, lvars, tvars>>

\* The process is killed while it runs.
HashKill ==
    /\ hpc \in {"responses", "responses_open", "challenges", "challenges_open"}
    /\ hpc' = "killed"
    /\ UNCHANGED <<dir, pair, hout, compared, runs, fvars, pvars, ovars, cvars, lvars, tvars>>

\* No run is under way.
HasherEnded == hpc \in {"done", "panicked", "killed"}

\* An artifact that was missing is there when the next run starts.
ArtifactArrives ==
    /\ HasherEnded
    /\ \E p \in DOMAIN dir :
          /\ p[Len(p)] # "_hash"
          /\ ~dir[p].exists
          /\ dir' = [dir EXCEPT ![p] = HonestDir(HashRounds)[p]]
    /\ UNCHANGED <<hpc, pair, hout, compared, runs, fvars, pvars, ovars, cvars, lvars, tvars>>

\* The pass is run again.
HashRerun ==
    /\ HasherEnded
    /\ runs < MaxRuns
    /\ runs' = runs + 1
    /\ hpc' = "responses"
    /\ pair' = 0
    /\ UNCHANGED <<dir, hout, compared, fvars, pvars, ovars, cvars, lvars, tvars>>

NextHasher ==
    \/ HashSkip
    \/ HashCreate
    \/ HashTo
    \/ HashToPanic
    \/ HashListEnd
    \/ HashKill
    \/ ArtifactArrives
    \/ HashRerun

SpecHasher == InitHasher /\ [][NextHasher]_vars

\* C26 as stated: whenever no run is under way, every hash file that exists
\* holds HashLen bytes, the digest of its artifact.
C26_AsClaimed ==
    HasherEnded =>
        \A p \in DOMAIN dir :
            (p[Len(p)] = "_hash" /\ dir[p].exists) =>
                LET artifact == dir[SubSeq(p, 1, Len(p) - 1)]
                IN  /\ Len(dir[p].bytes) = HashLen
                    /\ artifact.exists
                    /\ dir[p].bytes = calculate_hash(artifact.bytes)

\* The challenge entries and the response entries of the catalog that main
\* iterates over.
ChallengeEntries == {e \in DOMAIN catalog : catalog[e].path[1] = "challenge_"}

ResponseEntries == {e \in DOMAIN catalog : catalog[e].path[1] = "response_"}

\* C27 as stated: when main has gone through the whole literal, it has met N
\* challenge entries and N - 1 response entries, one response for every two
\* challenges that follow each other: response_0001 .. response_(N-1).
C27_AsClaimed ==
    (network = "gone" /\ opc = "returned") =>
        /\ Cardinality(ResponseEntries) = Cardinality(ChallengeEntries) - 1
        /\ \A i \in 1..(Cardinality(ChallengeEntries) - 1) :
              \E e \in ResponseEntries : catalog[e].path = ArtifactName("response_", i)

\* The number that the four digits of an artifact's name write.
NameNumber(name) ==
    DigitVal(name[2]) * 1000 + DigitVal(name[3]) * 100
    + DigitVal(name[4]) * 10 + DigitVal(name[5])

\* C28: challenge_paths(n) is the n + 1 names challenge_0000 .. challenge_n in
\* increasing order, response_paths(n) the n names response_0001 ..
\* response_n in increasing order, so the first list is one longer.
C28_PathLists ==
    (call.fn = "paths" /\ ret # NoRet) =>
        LET n == call.arg
            c == ret.value.challenges
            r == ret.value.responses
        IN  /\ DOMAIN c = 0..n
            /\ DOMAIN r = 0..(n - 1)
            /\ \A k \in 0..n :
                  Len(c[k]) = 5 /\ c[k][1] = "challenge_" /\ NameNumber(c[k]) = k
            /\ \A k \in 0..(n - 1) :
                  Len(r[k]) = 5 /\ r[k][1] = "response_" /\ NameNumber(r[k]) = k + 1
            /\ Cardinality(DOMAIN c) = Cardinality(DOMAIN r) + 1

\* C28 witness: the lists for a number of rounds of two digits have been
\* returned.
C28_Witness ==
    /\ call.fn = "paths"
    /\ ret # NoRet
    /\ call.arg >= 10
    /\ ret.value.responses[call.arg - 1] = <<"response_", "0", "0", "1", DigitChars[call.arg - 9]>>

\* C29: when get_urls returns Ok, its challenge list is one entry longer than
\* its response list.
C29_OneLonger ==
    (call.fn = "get_urls" /\ ret # NoRet /\ ret.tag = "ok") =>
        Len(ret.value.challenges) = Len(ret.value.responses) + 1

\* C29 witness: get_urls has returned Ok on a listing that ends with a file
\* that is no contribution, holds two files of one number, and lacks a
\* number, so that the files after the gap were passed over.
C29_Witness ==
    /\ call.fn = "get_urls"
    /\ ret # NoRet
    /\ ret.tag = "ok"
    /\ call.arg.entries[Len(call.arg.entries)] = <<"R", "E", "A", "D", "M", "E">>
    /\ \E x \in 1..Len(call.arg.entries) : call.arg.entries[x][6] = "b"
    /\ Len(call.arg.entries) > Len(ret.value.challenges) + 2

\* A turn of the loop of download_file has ended: a chunk was written and the
\* progress position set.
PositionSet == pc = "streaming" /\ pc' = "streaming" /\ received' # received

\* C30 as stated: the first position reported is L plus the length of the
\* first chunk, a later one is not below the one before it, and none is above
\* the total size.
C30_AsClaimed ==
    [][PositionSet =>
         /\ received = <<>> => amount' = start + Len(received')
         /\ received # <<>> => amount' >= amount
         /\ U64Leq(U64(amount'), total)]_vars

\* C30: the position reported after a chunk of n bytes is the position before
\* it plus n, or the total size when that is less; the first chunk is counted
\* from L; a later position is not below the one before it; and none is above
\* the total size.
C30_ProgressCapped ==
    [][PositionSet =>
         LET n == Len(received') - Len(received)
         IN  /\ received = <<>> => amount = start
             /\ U64Leq(U64(amount + n), total) => amount' = amount + n
             /\ ~U64Leq(U64(amount + n), total) => U64(amount') = total
             /\ received # <<>> => amount' >= amount
             /\ U64Leq(U64(amount'), total)]_vars

\* C30 witness: the server has sent more than what lay between L and the
\* total size, in more than one chunk, and the position stands at the total.
C30_Witness ==
    /\ pc = "streaming"
    /\ start > 0
    /\ Len(received) >= 2
    /\ U64(amount) = total
    /\ start + Len(received) > amount
    /\ amount > start

---------------------------------------------------------------------------
(* download_file and a Full content range *)

\* The content range of the response is Full and names another first byte than
\* the offset L of the request.
FullElsewhere ==
    /\ FromResponse(reply).tag = "Full"
    /\ FromResponse(reply).start # U64(Len(orig))

\* C35: of a Full content range download_file takes the size alone: whatever
\* its start and end are the response is streamed, not rejected, the total is
\* its size, and after Ok(()) the artifact is its bytes at open time followed
\* by exactly the body bytes received, which are the whole body.
C35_FullUsesSizeOnly ==
    FromResponse(reply).tag = "Full" =>
      /\ pc \in {"streaming", "done"}
      /\ result \notin {"size_mismatch", "bad_range"}
      /\ total = FromResponse(reply).size
      /\ pc = "done" /\ result = "ok" => received = body0 /\ disk = orig \o body0

\* A resumed download whose Full answer started at byte 0, not at L, returned
\* Ok with the whole body appended.
C35_Witness ==
    /\ pc = "done" /\ result = "ok"
    /\ FullElsewhere
    /\ Len(orig) > 0 /\ Len(body0) > 0
    /\ disk = orig \o body0

---------------------------------------------------------------------------
(* The orchestrator: probes, launches and the result of main *)

\* C33: the step in which the probe of entry k gets no HTTP status is the step
\* in which main returns that error: no entry after k has been probed or
\* launched, the tasks of earlier entries that have not completed are dropped
\* with the runtime instead of being awaited, and nothing happens afterwards.
C33_TransportErrorReturns ==
    [][/\ \A k \in DOMAIN catalog :
            probe[k] # "transport" /\ probe'[k] = "transport" =>
              /\ probe[k] = "none" /\ k = nextEntry
              /\ opc' = "returned" /\ oresult' = OrchErr("probe", k)
              /\ \A e \in DOMAIN catalog :
                   /\ e > k => probe'[e] = "none" /\ task'[e] = "none" /\ e \notin Launched'
                   /\ e < k => task'[e] = IF task[e] \in {"spawned", "inflight"}
                                         THEN "cancelled" ELSE task[e]
       /\ opc = "returned" => UNCHANGED ovars]_vars

\* main returned the transport error of the probe of an entry that is neither
\* the first nor the last: an earlier task was dropped while in flight and the
\* entries after it were never probed.
C33_Witness ==
    /\ opc = "returned" /\ oresult.tag = "Err" /\ oresult.from = "probe"
    /\ oresult.entry > 1 /\ oresult.entry < Len(catalog)
    /\ probe[oresult.entry] = "transport"
    /\ \E e \in 1..(oresult.entry - 1) : task[e] = "cancelled"
    /\ \A e \in (oresult.entry + 1)..Len(catalog) : probe[e] = "none" /\ task[e] = "none"

\* The log line of a skipped entry could not be written: main returned from
\* the else branch of the entry its loop was at.
LogFailed == nextEntry \in DOMAIN probe /\ probe[nextEntry] = "status"

\* C34 as claimed: main returns Ok exactly when no probe hit a transport error
\* and every launched task returned Ok.
C34_AsClaimed ==
    opc = "returned" =>
      (oresult.tag = "Ok" <=>
         /\ \A e \in DOMAIN probe : probe[e] # "transport"
         /\ \A e \in Launched : task[e] = "ok")

\* C34 amended: main returns Ok exactly when no probe hit a transport error,
\* the log line of every skipped entry could be written, and every launched
\* task returned Ok; the skipped entries themselves do not count.
C34_SuccessIff ==
    opc = "returned" =>
      (oresult.tag = "Ok" <=>
         /\ \A e \in DOMAIN probe : probe[e] # "transport"
         /\ ~LogFailed
         /\ \A e \in Launched : task[e] = "ok")

\* main returned Ok although the probe of an entry returned another status
\* than 200; the launched tasks all returned Ok.
C34_Witness ==
    /\ opc = "returned" /\ oresult = OrchOk
    /\ Launched # {} /\ \A e \in Launched : task[e] = "ok"
    /\ \E e \in DOMAIN probe : probe[e] = "status"

---------------------------------------------------------------------------
(* The indices of the verification chain *)

\* The indices main of verify_ppot.rs takes of `challenges` for n rounds:
\* challenges[1] before the loop and challenges[i + 1] in each pass.
ChallengeIndices(n) == {1} \cup {i + 1 : i \in Rounds(n)}

\* C36: for every number of rounds n >= 1, every index the chain takes of
\* challenge_paths(n) (1, and i + 1 for each i of the loop) and of
\* response_paths(n) (i for each i of the loop) is an index of that list.
C36_IndexSafety ==
    (call.fn = "paths" /\ ret # NoRet /\ call.arg >= 1) =>
        /\ ChallengeIndices(call.arg) \subseteq DOMAIN ret.value.challenges
        /\ Rounds(call.arg) \subseteq DOMAIN ret.value.responses

\* C36 witness: the lists of a chain of several passes have been returned and
\* the last pass takes the last entry of each.
C36_Witness ==
    /\ call.fn = "paths" /\ ret # NoRet /\ call.arg >= 3
    /\ call.arg \in ChallengeIndices(call.arg)
    /\ call.arg + 1 \notin DOMAIN ret.value.challenges
    /\ call.arg - 1 \in Rounds(call.arg)
    /\ call.arg \notin DOMAIN ret.value.responses

---------------------------------------------------------------------------
(* Where the verification scan stops *)

\* The artifacts pass r of the scan needs; pass 0 is the read of challenges[1]
\* before the loop.
Needs(r) == IF r = 0 THEN {challenges[1]} ELSE {challenges[r + 1], responses[r]}

\* The passes one of whose artifacts cannot be opened or cannot be parsed.
Unreadable == {r \in 0..(NumRounds - 1) : \E p \in Needs(r) : fs[p] # "good"}

\* The first of them.
FirstUnreadable == CHOOSE r \in Unreadable : \A q \in Unreadable : r <= q

\* C37: a run that has ended stopped before its last round exactly when an
\* artifact the scan needs cannot be opened or parsed.  It then stopped in the
\* first pass that needs such an artifact: the rounds before it were called in
\* order, each with its line printed, and nothing of a later round was opened.
\* With every needed artifact readable the run goes through all rounds,
\* whatever the verdicts.
C37_StopsOnUnreadable ==
    Terminated =>
      /\ Len(calls) < NumRounds - 1 <=> Unreadable # {}
      /\ cpc = "panicked" <=> Unreadable # {}
      /\ Unreadable # {} =>
           /\ Len(calls) = (IF FirstUnreadable = 0 THEN 0 ELSE FirstUnreadable - 1)
           /\ Len(report) = Len(calls)
           /\ \A k \in 1..Len(calls) : calls[k].round = k /\ report[k].round = k
           /\ \A k \in 1..Len(reads) :
                \E r \in 0..FirstUnreadable : reads[k] \in Needs(r)
           /\ fs[reads[Len(reads)]] # "good"

\* C37 witness: the run stopped in round 2 on an artifact that cannot be
\* read, after round 1 was called and failed verification.
C37_Witness ==
    /\ cpc = "panicked"
    /\ FirstUnreadable = 2
    /\ Len(calls) = 1 /\ ~calls[1].verdict
    /\ report = <<Line("error", 1)>>

---------------------------------------------------------------------------
(* The artifacts the passes open, against the catalog of the downloader *)

\* NUM_ROUNDS of verify_ppot.rs, of hash_check.rs and of hasher.rs.
VerifyRounds == 71

HashCheckRounds == 70

HasherRounds == 72

\* The names a list of paths holds.
Names(list) == {list[k] : k \in DOMAIN list}

\* The artifacts main of verify_ppot.rs opens with n rounds: challenges[1],
\* and challenges[i + 1] and responses[i] for each i of the loop.
ChainOpens(n) ==
    {challenge_paths(n)[k] : k \in ChallengeIndices(n)}
    \cup {response_paths(n)[i] : i \in Rounds(n)}

\* The artifacts main of hash_check.rs opens with n rounds: each response, in
\* its first loop, and each challenge after the first, in its second.
HashCheckOpens(n) ==
    Names(response_paths(n)) \cup (Names(challenge_paths(n)) \ {challenge_paths(n)[0]})

\* The artifacts main of hasher.rs hands to hash_to, in a directory without
\* hash files, with n rounds: each response and each challenge.
HasherOpens(n) == Names(response_paths(n)) \cup Names(challenge_paths(n))

\* The local paths of the catalog.
CatalogPaths == {catalog[e].path : e \in DOMAIN catalog}

\* The artifacts a pass opens that no entry of the catalog fetches.
NotFetched(opened) == opened \ CatalogPaths

\* C38 as claimed: every artifact the verification chain (71 rounds), the
\* hash check (70 rounds) and the hashing pass (72 rounds) open is the local
\* path of an entry of the whole catalog.
C38_AsClaimed ==
    Len(catalog) = LiteralChallenges + LiteralResponses =>
      /\ NotFetched(ChainOpens(VerifyRounds)) = {}
      /\ NotFetched(HashCheckOpens(HashCheckRounds)) = {}
      /\ NotFetched(HasherOpens(HasherRounds)) = {}

---------------------------------------------------------------------------
(* The hashing pass and the hash files that exist *)

\* The hash files of the directory, and whether every one of them exists.
HashFiles == {p \in DOMAIN dir : p[Len(p)] = "_hash"}

AllHashed == \A p \in HashFiles : dir[p].exists

\* hash_to is about to run on the artifact whose hash file was just created.
HashOpen == hpc \in {"responses_open", "challenges_open"}

\* The loop stands at an artifact whose hash file exists.
AtHashed ==
    /\ hpc \in {"responses", "challenges"}
    /\ pair < Cardinality(DOMAIN HashList(hpc))
    /\ dir[HashPath(HashArtifact)].exists

\* C39: when the loop comes to an artifact whose hash file exists, whatever
\* that file holds, its step changes no file and does not enter hash_to; a
\* hash file is written only by the run that created it, right after creating
\* it; and once every hash file exists (as after a completed run) no later
\* step, of this run or of another one, changes any hash file.
C39_NeverRewrites ==
    [][/\ AtHashed => dir' = dir /\ ~HashOpen'
       /\ \A p \in HashFiles :
            dir[p].exists /\ dir'[p] # dir[p] =>
              HashOpen /\ p = HashPath(HashArtifact) /\ dir[p] = File(<<>>)
       /\ AllHashed /\ ~HashOpen =>
            /\ AllHashed' /\ ~HashOpen'
            /\ \A p \in HashFiles : dir'[p] = dir[p]
            /\ hout' # hout => hout'[Len(hout')].line = "has been hashed"]_vars

\* C39 witness: a second run has gone through both lists skipping every
\* artifact, among them one that is there and whose hash file the first run
\* left empty.
C39_Witness ==
    /\ runs = 2 /\ hpc = "done" /\ AllHashed
    /\ \E a \in DOMAIN dir :
         /\ a[Len(a)] # "_hash" /\ dir[a].exists /\ dir[a].bytes # <<>>
         /\ dir[HashPath(a)] = File(<<>>)
         /\ \E k \in 1..Len(hout) : hout[k] = [line |-> "has been hashed", path |-> a]

(***************************************************************************)
(* hash_test.rs: main hashes challenge_0011, writes the digest to          *)
(* challenge_0011_hash and reads the file back.                            *)
(***************************************************************************)

\* `let path = "challenge_0011"`.
HashTestPath == ArtifactName("challenge_", 11)

\* `file.read(buf)`: the number of bytes read, at most the length of buf, and
\* buf afterwards.
ReadBuf(file, buf) ==
    LET n == IF Len(file.bytes) < Len(buf) THEN Len(file.bytes) ELSE Len(buf)
    IN  [bytes_read |-> n,
         buf |-> [i \in 1..Len(buf) |-> IF i <= n THEN file.bytes[i] ELSE buf[i]]]

\* main is entered: the artifact is missing, empty or holds some bytes; the
\* hash file is missing, empty, or left by an earlier run with other content.
InitHashTest ==
    /\ FetchIdle /\ CodecIdle /\ OrchIdle /\ ChainIdle /\ LibIdle /\ TasksIdle
    /\ \E a \in {Absent} \cup {File(b) : b \in UNION {[1..l -> {0, 1, 255}] : l \in 0..MaxInput}},
          h \in {Absent, File(<<>>), File([i \in 1..(HashLen + 1) |-> 9])} :
         dir = (HashTestPath :> a) @@ (HashPath(HashTestPath) :> h)
    /\ hpc = "hashing"
    /\ pair = 0
    /\ hout = <<>>
    /\ compared = <<>>
    /\ runs = 1

\* The artifact opens and maps; its digest is computed and printed.
HashTestHash ==
    /\ hpc = "hashing"
    /\ dir[HashTestPath].exists /\ dir[HashTestPath].bytes # <<>>
    /\ hout' = Append(hout, [line |-> "The hash of", path |-> HashTestPath,
                             value |-> calculate_hash(dir[HashTestPath].bytes)])
    /\ hpc' = "writing"
    /\ UNCHANGED <<dir, pair, compared, runs, fvars, pvars, ovars, cvars, lvars, tvars>>

\* The artifact does not open, or is empty and cannot be mapped: expect panics.
HashTestHashPanic ==
    /\ hpc = "hashing"
    /\ ~dir[HashTestPath].exists \/ dir[HashTestPath].bytes = <<>>
    /\ hpc' = "panicked"
    /\ UNCHANGED <<dir, pair, hout, compared, runs, fvars, pvars, ovars, cvars, lvars, tvars>>

\* The hash file is created or truncated, the digest written, the file closed.
HashTestWrite ==
    /\ hpc = "writing"
    /\ dir' = [dir EXCEPT ![HashPath(HashTestPath)] = File(hout[1].value)]
    /\ hpc' = "reading"
    /\ UNCHANGED <<pair, hout, compared, runs, fvars, pvars, ovars, cvars, lvars, tvars>>

\* The hash file is opened again and read into `&mut contents[..]`, the slice
\* of a Vec that was created empty; contents is printed and bytes_read
\* compared with 64 by assert_eq!, which panics when they differ.
HashTestReadBack ==
    /\ hpc = "reading"
    /\ LET contents == <<>>
           r == ReadBuf(dir[HashPath(HashTestPath)], contents)
       IN  /\ hout' = Append(hout, [line |-> "The contents of the file are",
                                    path |-> HashPath(HashTestPath), value |-> r.buf])
           /\ compared' = Append(compared, [left |-> r.bytes_read, right |-> 64])
           /\ hpc' = IF r.bytes_read = 64 THEN "done" ELSE "panicked"
    /\ UNCHANGED <<dir, pair, runs, fvars, pvars, ovars, cvars, lvars, tvars>>

NextHashTest ==
    \/ HashTestHash
    \/ HashTestHashPanic
    \/ HashTestWrite
    \/ HashTestReadBack

SpecHashTest == InitHashTest /\ [][NextHashTest]_vars

\* C40 as claimed: on every run in which the artifact and the hash file could
\* be opened, the read-back step reads 64 bytes and the final assertion
\* bytes_read == 64 holds.
C40_AsClaimed ==
    compared # <<>> => compared[1].left = 64 /\ hpc = "done"

(***************************************************************************)
(* The fetch tasks of downloader.rs followed step by step: main probes     *)
(* and spawns as above, and each spawned task runs download_file on its    *)
(* own entry, its awaits interleaved with those of the other tasks and of  *)
(* main.  The tasks share the download directory and the MultiProgress.    *)
(***************************************************************************)

\* The locals of a download_file that has not been polled yet.
TaskStart ==
    [pc |-> "start", result |-> "none", start |-> 0, total |-> U64Zero, amount |-> 0,
     outer |-> <<>>, inner |-> <<>>, body |-> <<>>]

\* What a task meets at an await.
NoRsp == [hdr |-> NoReply, body |-> <<>>]

Ev(kind, rsp, n) == [kind |-> kind, rsp |-> rsp, n |-> n]

\* What the server behind a url answers to a request from offset o: the rest
\* of the resource, a response without content range, or a size that is not o.
TaskResponses(o) ==
    {ConformingResponse(o),
     [hdr |-> NoHeader, body |-> <<>>],
     [hdr |-> TextHeader(SizeText(U64(o + 1))), body |-> <<>>]}

\* The catalog of the tasks followed: the first challenge and the first
\* response of the literal.
TaskCatalog == Catalog(1, 1)

\* block_on has been entered with each artifact missing, partly fetched or
\* complete.
InitTasks ==
    /\ FetchIdle /\ CodecIdle /\ ChainIdle /\ HashIdle /\ LibIdle
    /\ network = "faulty" /\ catalog = TaskCatalog
    /\ opc = "probing" /\ nextEntry = 1
    /\ probe = [e \in DOMAIN catalog |-> "none"]
    /\ task = [e \in DOMAIN catalog |-> "none"]
    /\ handles = <<>>
    /\ oresult = NoResult
    /\ files \in [{catalog[e].path : e \in DOMAIN catalog} ->
                    {Absent, File(SubSeq(Remote, 1, 1)), File(Remote)}]
    /\ files0 = files
    /\ ft = [e \in DOMAIN catalog |-> TaskStart]
    /\ trace = [e \in DOMAIN catalog |-> <<>>]
    /\ sink = <<>>

\* TaskMoves with every task writing to the path of the first entry.
TaskMovesOnePath(e, s2, file2, reports, ev) ==
    /\ opc = "probing" /\ task[e] \in {"spawned", "inflight"}
    /\ ft' = [ft EXCEPT ![e] = s2]
    /\ files' = [files EXCEPT ![catalog[1].path] = file2]
    /\ sink' = sink \o [k \in 1..Len(reports) |-> [entry |-> e, position |-> reports[k]]]
    /\ trace' = [trace EXCEPT ![e] = Append(@, ev)]
    /\ task' = [task EXCEPT ![e] =
                  IF s2.pc = "streaming" THEN "inflight"
                  ELSE IF s2.pc # "done" THEN "spawned"
                  ELSE IF s2.result = "ok" THEN "ok" ELSE "err"]
    /\ UNCHANGED <<catalog, network, opc, nextEntry, probe, handles, oresult, files0,
                   fvars, pvars, cvars, hvars, lvars>>

\* The task of entry e is polled through one await of its download_file: its
\* locals become s2, the file at its own path becomes file2, and the
\* positions it reports are appended to the shared progress sink.
TaskMoves(e, s2, file2, reports, ev) ==
    /\ opc = "probing" /\ task[e] \in {"spawned", "inflight"}
    /\ ft' = [ft EXCEPT ![e] = s2]
    /\ files' = [files EXCEPT ![catalog[e].path] = file2]
    /\ sink' = sink \o [k \in 1..Len(reports) |-> [entry |-> e, position |-> reports[k]]]
    /\ trace' = [trace EXCEPT ![e] = Append(@, ev)]
    /\ task' = [task EXCEPT ![e] =
                  IF s2.pc = "streaming" THEN "inflight"
                  ELSE IF s2.pc # "done" THEN "spawned"
                  ELSE IF s2.result = "ok" THEN "ok" ELSE "err"]
    /\ UNCHANGED <<catalog, network, opc, nextEntry, probe, handles, oresult, files0,
                   fvars, pvars, cvars, hvars, lvars>>

\* download_file returns r: its writers are dropped with what they hold.
TaskReturns(s, r) ==
    [s EXCEPT !.pc = "done", !.result = r, !.outer = <<>>, !.inner = <<>>, !.body = <<>>]

\* open_file: the file is created when it is missing, and its length read.
FetchOpen(e) ==
    /\ ft[e].pc = "start"
    /\ LET file == files[catalog[e].path]
       IN  TaskMoves(e, [ft[e] EXCEPT !.pc = "opened", !.start = Len(file.bytes),
                                     !.amount = Len(file.bytes)],
                     File(file.bytes), <<>>, Ev("open", NoRsp, 0))

\* send_download_request gets its response.
FetchRequest(e) ==
    /\ ft[e].pc = "opened"
    /\ \E rsp \in TaskResponses(ft[e].start) :
         LET cr == FromResponse(rsp.hdr)
             out == RequestOutcome(cr, ft[e].start)
         IN  TaskMoves(e,
                       IF out = "stream"
                       THEN [ft[e] EXCEPT !.pc = "streaming", !.total = cr.size,
                                          !.body = rsp.body]
                       ELSE TaskReturns(ft[e], out),
                       files[catalog[e].path], <<>>, Ev("response", rsp, 0))

\* chunk() yields n bytes, write_all takes them, the position is reported.
FetchChunk(e) ==
    /\ ft[e].pc = "streaming"
    /\ \E n \in 1..Len(ft[e].body) :
         LET w == OuterWrite(Writer(ft[e].outer, ft[e].inner, files[catalog[e].path].bytes),
                             SubSeq(ft[e].body, 1, n))
             a == Advance(ft[e].amount, n, ft[e].total)
         IN  TaskMoves(e,
                       [ft[e] EXCEPT !.outer = w.outer, !.inner = w.inner, !.amount = a,
                                     !.body = SubSeq(ft[e].body, n + 1, Len(ft[e].body))],
                       File(w.disk), <<a>>, Ev("chunk", NoRsp, n))

\* chunk() yields None, the writers are flushed, Ok(()).
FetchFinish(e) ==
    /\ ft[e].pc = "streaming" /\ ft[e].body = <<>>
    /\ LET w == Flush(Writer(ft[e].outer, ft[e].inner, files[catalog[e].path].bytes))
       IN  TaskMoves(e, TaskReturns(ft[e], "ok"), File(w.disk), <<>>,
                     Ev("finish", NoRsp, 0))

\* An await of download_file returns an error (open_file, send or chunk).
FetchError(e) ==
    /\ ft[e].pc \in {"start", "opened", "streaming"}
    /\ TaskMoves(e, TaskReturns(ft[e], "error"), files[catalog[e].path], <<>>,
                 Ev("error", NoRsp, 0))

NextTasks ==
    \/ ProbeSpawn
    \/ ProbeSkip
    \/ PrintlnFail
    \/ ProbeTransportError
    \/ \E e \in DOMAIN catalog : FetchOpen(e)
    \/ \E e \in DOMAIN catalog : FetchRequest(e)
    \/ \E e \in DOMAIN catalog : FetchChunk(e)
    \/ \E e \in DOMAIN catalog : FetchFinish(e)
    \/ \E e \in DOMAIN catalog : FetchError(e)
    \/ JoinOk
    \/ JoinErr

SpecTasks == InitTasks /\ [][NextTasks]_vars

\* download_file run on its own, one step on its locals s and on the file at
\* its path, nothing else touching either:
\* open_file (the file is created when missing and its length read), the
\* response of send_download_request, one turn of the chunk loop, the flush
\* and Ok(()), or an await that returns an error.  The result holds the new
\* locals, the file, and the positions reported to the progress bar.
AloneStep(s, file, ev) ==
    LET w == Writer(s.outer, s.inner, file.bytes)
    IN  IF ev.kind = "open"
        THEN [s |-> [s EXCEPT !.pc = "opened", !.start = Len(file.bytes),
                              !.amount = Len(file.bytes)],
              file |-> File(file.bytes), sink |-> <<>>]
        ELSE IF ev.kind = "response"
        THEN LET cr == FromResponse(ev.rsp.hdr)
                 out == RequestOutcome(cr, s.start)
             IN  [s |-> IF out = "stream"
                        THEN [s EXCEPT !.pc = "streaming", !.total = cr.size,
                                       !.body = ev.rsp.body]
                        ELSE TaskReturns(s, out),
                  file |-> file, sink |-> <<>>]
        ELSE IF ev.kind = "chunk"
        THEN LET w1 == OuterWrite(w, SubSeq(s.body, 1, ev.n))
                 a == Advance(s.amount, ev.n, s.total)
             IN  [s |-> [s EXCEPT !.outer = w1.outer, !.inner = w1.inner, !.amount = a,
                                  !.body = SubSeq(s.body, ev.n + 1, Len(s.body))],
                  file |-> File(w1.disk), sink |-> <<a>>]
        ELSE IF ev.kind = "finish"
        THEN [s |-> TaskReturns(s, "ok"),
              file |-> File(Flush(w).disk), sink |-> <<>>]
        ELSE [s |-> TaskReturns(s, "error"), file |-> file, sink |-> <<>>]

\* The task of one entry run alone on the directory as it was, through the
\* steps the task has taken so far: its locals, its file and its reports.
RECURSIVE Alone(_, _)
Alone(e, k) ==
    IF k = 0 THEN [s |-> TaskStart, file |-> files0[catalog[e].path], sink |-> <<>>]
    ELSE LET before == Alone(e, k - 1)
             r == AloneStep(before.s, before.file, trace[e][k])
         IN  [s |-> r.s, file |-> r.file, sink |-> before.sink \o r.sink]

\* The positions in the shared sink that the task of entry e reported.
RECURSIVE ReportsOf(_, _)
ReportsOf(e, k) ==
    IF k = 0 THEN <<>>
    ELSE IF sink[k].entry = e THEN Append(ReportsOf(e, k - 1), sink[k].position)
    ELSE ReportsOf(e, k - 1)

\* C31: whatever the interleaving of the tasks' steps with each other and
\* with main, the locals of each task (its Result among them), the file at
\* its path and the positions it reported are those of the same task taking
\* the same steps alone; a path without task holds what it held at the start.
C31_InterleavingIndependence ==
    \A e \in DOMAIN catalog :
      LET alone == Alone(e, Len(trace[e]))
      IN  /\ ft[e] = alone.s
          /\ files[catalog[e].path] = alone.file
          /\ ReportsOf(e, Len(sink)) = alone.sink
          /\ task[e] \in {"ok", "err"} <=> alone.s.pc = "done"
          /\ task[e] = "ok" <=> alone.s.result = "ok"

\* C31 witness: main returned Ok after two tasks that both appended to their
\* artifacts, the chunks of one received between the chunks of the other.
C31_Witness ==
    /\ opc = "returned" /\ oresult = OrchOk
    /\ task[1] = "ok" /\ task[2] = "ok"
    /\ \E i, j, k \in 1..Len(sink) :
         i < j /\ j < k /\ sink[i].entry = 1 /\ sink[j].entry = 2 /\ sink[k].entry = 1
    /\ \A e \in DOMAIN catalog : Len(files[catalog[e].path].bytes) = RemoteSize

---------------------------------------------------------------------------
(* The probe before the fetch *)

\* C32: a fetch task exists for an entry only if that entry's probe returned
\* status 200, and it is launched in the step that receives the 200; an entry
\* whose probe returned another status (or no status) never has a task, its
\* download_file takes no step, and the file at its local path is what it was
\* when main was entered: missing if it was missing, else the same bytes.
C32_ProbeBeforeFetch ==
    [][\A e \in DOMAIN catalog :
         /\ task'[e] # "none" => probe'[e] = "200"
         /\ task[e] = "none" /\ task'[e] # "none" => probe[e] = "none" /\ e \in Launched'
         /\ ProbeFailed(e) =>
              /\ task[e] = "none" /\ task'[e] = "none" /\ e \notin Launched'
              /\ trace'[e] = <<>> /\ ft'[e] = TaskStart
              /\ files'[catalog[e].path] = files0[catalog[e].path]]_vars

\* main returned Ok: the probe of one entry returned another status, it has
\* no task and its artifact is still missing; the task of a later entry was
\* launched, returned Ok and completed its artifact.
C32_Witness ==
    /\ opc = "returned" /\ oresult = OrchOk
    /\ \E e, f \in DOMAIN catalog :
         /\ probe[e] = "status" /\ task[e] = "none" /\ e \notin Launched
         /\ files[catalog[e].path] = Absent
         /\ probe[f] = "200" /\ task[f] = "ok" /\ e < f
         /\ files0[catalog[f].path] = Absent /\ files[catalog[f].path] = File(Remote)

=============================================================================
